---- MODULE Spec2Model ----
(***************************************************************************)
(* DockerConnection (src/src/docker/connection.ts): HTTP over a Unix       *)
(* socket, one-shot (requestBinary) and streaming (requestStream).         *)
(*                                                                         *)
(* Bytes are integers 0..255; a Uint8Array is a sequence of bytes.  The    *)
(* code indexes from 0, so offsets below are the code's 0-based offsets    *)
(* and At/SubArray translate them.  All bytes of the HTTP responses of the  *)
(* model are ASCII, for which TextDecoder.decode is the byte-to-character  *)
(* identity, so a decoded header or error body is the same sequence of     *)
(* character codes.                                                        *)
(*                                                                         *)
(* DockerClient (src/src/docker/types.ts): the log frame decoders and the  *)
(* event line decoder.  Their texts go through Utf8Decode and Utf8Encode.  *)
(***************************************************************************)
EXTENDS Integers, Sequences, FiniteSets, TLC

\* ------------------------------------------------------------------ bounds

\* Most chunks in a chunked body the daemon sends.
MaxChunks == 2
\* Most cancel() calls the caller makes on one stream handle.
MaxCancels == 2
\* Most UTF-16 code units in a request body.
MaxBodyUnits == 2
\* Most frames in a multiplexed log stream, and most bytes in a raw one.
MaxFrames == 2
MaxRawBytes == 3
\* Most lines in an event stream.
MaxEventLines == 3
\* Most characters in a repo-tag string.
MaxTagLen == 4
\* Most passes of a chunked decoder's loop that push a chunk or call onData.
MaxPasses == 3
\* Most ticks of the poll timer of monitorUntilStartedOrExited.
MaxTicks == 3

\* ------------------------------------------------------------- byte helpers

CR == 13
LF == 10
CRLF == <<13, 10>>
CRLFCRLF == <<13, 10, 13, 10>>

Min(a, b) == IF a < b THEN a ELSE b
Max(a, b) == IF a > b THEN a ELSE b

\* data[i], 0-based.
At(data, i) == data[i + 1]

\* TypedArray.prototype.subarray(begin, end): negative offsets count from the
\* end, both are clamped to [0, length], and end < begin gives the empty array.
RelIndex(k, len) == IF k < 0 THEN Max(len + k, 0) ELSE Min(k, len)

SubArray(data, begin, end) ==
    LET b == RelIndex(begin, Len(data))
        e == RelIndex(end, Len(data))
    IN  IF e <= b THEN <<>> ELSE SubSeq(data, b + 1, e)

SubArrayFrom(data, begin) == SubArray(data, begin, Len(data))

\* The least element of a non-empty set of integers.
Least(S) == CHOOSE x \in S : \A y \in S : x <= y

\* String.prototype.indexOf on character-code sequences: -1 when absent.
IndexOf(s, pat) ==
    LET hits == {i \in 0..(Len(s) - Len(pat)) :
                    \A j \in 1..Len(pat) : s[i + j] = pat[j]}
    IN  IF hits = {} THEN -1 ELSE Least(hits)

ToLowerCase(s) == [i \in 1..Len(s) |-> IF s[i] >= 65 /\ s[i] <= 90 THEN s[i] + 32 ELSE s[i]]

IsDigit(c) == c >= 48 /\ c <= 57

\* The value of one digit character in a radix up to 16, -1 when it is none.
DigitValue(c, radix) ==
    LET v == IF c >= 48 /\ c <= 57 THEN c - 48
             ELSE IF c >= 97 /\ c <= 102 THEN c - 87
             ELSE IF c >= 65 /\ c <= 70 THEN c - 55
             ELSE -1
    IN  IF v >= 0 /\ v < radix THEN v ELSE -1

\* ASCII members of StrWhiteSpaceChar (WhiteSpace and LineTerminator).
IsWhiteSpace(c) == c \in {9, 10, 11, 12, 13, 32}

RECURSIVE TrimStart(_)
TrimStart(s) ==
    IF Len(s) > 0 /\ IsWhiteSpace(s[1]) THEN TrimStart(Tail(s)) ELSE s

RECURSIVE TrimEnd(_)
TrimEnd(s) ==
    IF Len(s) > 0 /\ IsWhiteSpace(s[Len(s)]) THEN TrimEnd(SubSeq(s, 1, Len(s) - 1)) ELSE s

\* String.prototype.trim
Trim(s) == TrimEnd(TrimStart(s))

\* The digits of the longest prefix of s that are digits of the radix, as a number.
RECURSIVE DigitsPrefix(_, _, _, _)
DigitsPrefix(s, radix, acc, seen) ==
    IF Len(s) > 0 /\ DigitValue(s[1], radix) >= 0
    THEN DigitsPrefix(Tail(s), radix, acc * radix + DigitValue(s[1], radix), TRUE)
    ELSE [nan |-> ~seen, val |-> acc]

\* parseInt(string, radix) for radix 10 and 16: leading white space is skipped,
\* one sign is read, with radix 16 a 0x/0X prefix is skipped, then the longest
\* prefix of digits is the value; no digit at all is NaN.
ParseInt(str, radix) ==
    LET s0 == TrimStart(str)
        neg == Len(s0) > 0 /\ s0[1] = 45
        s1 == IF Len(s0) > 0 /\ s0[1] \in {43, 45} THEN Tail(s0) ELSE s0
        s2 == IF radix = 16 /\ Len(s1) >= 2 /\ s1[1] = 48 /\ s1[2] \in {120, 88}
              THEN SubSeq(s1, 3, Len(s1)) ELSE s1
        r == DigitsPrefix(s2, radix, 0, FALSE)
    IN  [nan |-> r.nan, val |-> IF neg THEN 0 - r.val ELSE r.val]

\* ----------------------------------------------------------- header parsing

\* findHeaderEnd: the 0-based index of the first CR LF CR LF, or -1.
findHeaderEnd(data) == IndexOf(data, CRLFCRLF)

\* combineChunks: the concatenation of the chunks read so far.
RECURSIVE combineChunks(_)
combineChunks(chunks) ==
    IF chunks = <<>> THEN <<>> ELSE Head(chunks) \o combineChunks(Tail(chunks))

\* headers.split('\r\n')[0]
StatusLine(headers) ==
    LET i == IndexOf(headers, CRLF)
    IN  IF i = -1 THEN headers ELSE SubSeq(headers, 1, i)

\* The number of digits that start s.
RECURSIVE DigitRun(_)
DigitRun(s) == IF Len(s) > 0 /\ IsDigit(s[1]) THEN 1 + DigitRun(Tail(s)) ELSE 0

\* statusLine.match(/HTTP\/\d\.\d (\d+)/): the first capture group of the
\* leftmost match, or <<>> when the line does not match.
StatusMatch(line) ==
    LET hits == {i \in 0..(Len(line) - 10) :
                    /\ SubSeq(line, i + 1, i + 5) = <<72, 84, 84, 80, 47>>
                    /\ IsDigit(line[i + 6])
                    /\ line[i + 7] = 46
                    /\ IsDigit(line[i + 8])
                    /\ line[i + 9] = 32
                    /\ IsDigit(line[i + 10])}
    IN  IF hits = {} THEN <<>>
        ELSE LET i == Least(hits)
                 rest == SubSeq(line, i + 10, Len(line))
             IN  SubSeq(rest, 1, DigitRun(rest))

TransferEncodingChunked ==
    <<116, 114, 97, 110, 115, 102, 101, 114, 45, 101, 110, 99, 111, 100, 105, 110,
      103, 58, 32, 99, 104, 117, 110, 107, 101, 100>>

\* headers.toLowerCase().includes('transfer-encoding: chunked')
IsChunkedHeaders(headers) == IndexOf(ToLowerCase(headers), TransferEncodingChunked) # -1

\* ---------------------------------------------------------- chunked decoding

\* The loop that looks for the CRLF ending a chunk-size line: the least i with
\* from <= i < data.length - 1 and data[i..i+1] = CR LF, or -1.
FindCRLF(data, from) ==
    LET hits == {i \in from..(Len(data) - 2) : At(data, i) = CR /\ At(data, i + 1) = LF}
    IN  IF hits = {} THEN -1 ELSE Least(hits)

\* decodeChunkedStep without the skip of the CRLF that ends a chunk's data.
decodeChunkedStepNoCRLF(data, index) ==
    LET lineEnd == FindCRLF(data, index)
        size == ParseInt(SubArray(data, index, lineEnd), 16)
        dataStart == lineEnd + 2
        none == [kind |-> "break", index |-> index, pushed |-> FALSE, chunk |-> <<>>]
    IN  IF lineEnd = -1 THEN none
        ELSE IF size.nan THEN [none EXCEPT !.kind = "throw"]
        ELSE IF size.val = 0 THEN none
        ELSE IF dataStart + size.val > Len(data)
             THEN [none EXCEPT !.pushed = TRUE, !.chunk = SubArrayFrom(data, dataStart)]
        ELSE [kind |-> "next", index |-> dataStart + size.val, pushed |-> TRUE,
              chunk |-> SubArray(data, dataStart, dataStart + size.val)]

\* decodeChunkedStep that skips a size line it cannot parse, as the streaming
\* decoder does.
decodeChunkedStepSkipsLine(data, index) ==
    LET lineEnd == FindCRLF(data, index)
        size == ParseInt(SubArray(data, index, lineEnd), 16)
        dataStart == lineEnd + 2
        none == [kind |-> "break", index |-> index, pushed |-> FALSE, chunk |-> <<>>]
    IN  IF lineEnd = -1 THEN none
        ELSE IF size.nan THEN [none EXCEPT !.kind = "next", !.index = lineEnd + 2]
        ELSE IF size.val = 0 THEN none
        ELSE IF dataStart + size.val > Len(data)
             THEN [none EXCEPT !.pushed = TRUE, !.chunk = SubArrayFrom(data, dataStart)]
        ELSE [kind |-> "next", index |-> dataStart + size.val + 2, pushed |-> TRUE,
              chunk |-> SubArray(data, dataStart, dataStart + size.val)]

\* decodeChunkedStep that drops the bytes of a chunk that is cut short.
decodeChunkedStepDropsPartial(data, index) ==
    LET lineEnd == FindCRLF(data, index)
        size == ParseInt(SubArray(data, index, lineEnd), 16)
        dataStart == lineEnd + 2
        none == [kind |-> "break", index |-> index, pushed |-> FALSE, chunk |-> <<>>]
    IN  IF lineEnd = -1 THEN none
        ELSE IF size.nan THEN [none EXCEPT !.kind = "throw"]
        ELSE IF size.val = 0 THEN none
        ELSE IF dataStart + size.val > Len(data) THEN none
        ELSE [kind |-> "next", index |-> dataStart + size.val + 2, pushed |-> TRUE,
              chunk |-> SubArray(data, dataStart, dataStart + size.val)]

\* decodeChunkedStep that throws where a chunk's data is cut short.
decodeChunkedStepStrict(data, index) ==
    LET lineEnd == FindCRLF(data, index)
        size == ParseInt(SubArray(data, index, lineEnd), 16)
        dataStart == lineEnd + 2
        none == [kind |-> "break", index |-> index, pushed |-> FALSE, chunk |-> <<>>]
    IN  IF lineEnd = -1 THEN none
        ELSE IF size.nan THEN [none EXCEPT !.kind = "throw"]
        ELSE IF size.val = 0 THEN none
        ELSE IF dataStart + size.val > Len(data) THEN [none EXCEPT !.kind = "throw"]
        ELSE [kind |-> "next", index |-> dataStart + size.val + 2, pushed |-> TRUE,
              chunk |-> SubArray(data, dataStart, dataStart + size.val)]

\* One iteration of decodeChunkedBytes' while loop at `index` (index < data.length):
\* kind "break" (stop), "throw" (invalid chunk size) or "next" (continue at
\* `index`); `chunk` is what the iteration pushed, `pushed` whether it pushed.
decodeChunkedStep(data, index) ==
    LET lineEnd == FindCRLF(data, index)
        sizeHex == SubArray(data, index, lineEnd)
        size == ParseInt(sizeHex, 16)
        dataStart == lineEnd + 2
        none == [kind |-> "break", index |-> index, pushed |-> FALSE, chunk |-> <<>>]
    IN  IF lineEnd = -1 THEN none
        ELSE IF size.nan THEN [none EXCEPT !.kind = "throw"]
        ELSE IF size.val = 0 THEN none
        ELSE IF dataStart + size.val > Len(data)
             THEN [none EXCEPT !.pushed = TRUE, !.chunk = SubArrayFrom(data, dataStart)]
        ELSE [kind |-> "next", index |-> dataStart + size.val + 2, pushed |-> TRUE,
              chunk |-> SubArray(data, dataStart, dataStart + size.val)]

RECURSIVE decodeChunkedLoop(_, _, _)
decodeChunkedLoop(data, index, chunks) ==
    IF ~(index < Len(data)) THEN [ok |-> TRUE, body |-> combineChunks(chunks)]
    ELSE LET st == decodeChunkedStep(data, index)
             pushed == IF st.pushed THEN Append(chunks, st.chunk) ELSE chunks
         IN  CASE st.kind = "throw" -> [ok |-> FALSE, body |-> <<>>]
               [] st.kind = "break" -> [ok |-> TRUE, body |-> combineChunks(pushed)]
               [] OTHER -> decodeChunkedLoop(data, st.index, pushed)

\* decodeChunkedBytes: the whole-buffer decoder of a one-shot response body.
decodeChunkedBytes(data) == decodeChunkedLoop(data, 0, <<>>)

\* processChunkedStep that stops at a chunk-size line it cannot parse.
processChunkedStepStuck(buffer, offset) ==
    LET crlfPos == FindCRLF(buffer, offset)
        chunkSize == ParseInt(Trim(SubArray(buffer, offset, crlfPos)), 16)
        dataStart == crlfPos + 2
        dataEnd == dataStart + chunkSize.val
        none == [kind |-> "break", offset |-> offset, emit |-> FALSE, chunk |-> <<>>]
    IN  IF crlfPos = -1 THEN none
        ELSE IF chunkSize.nan THEN none
        ELSE IF chunkSize.val = 0 THEN [none EXCEPT !.offset = Len(buffer)]
        ELSE IF dataEnd + 2 > Len(buffer) THEN none
        ELSE [kind |-> "next", offset |-> dataEnd + 2, emit |-> TRUE,
              chunk |-> SubArray(buffer, dataStart, dataEnd)]

\* processChunkedStep that does not wait for the CRLF after a chunk's data.
processChunkedStepEarly(buffer, offset) ==
    LET crlfPos == FindCRLF(buffer, offset)
        chunkSize == ParseInt(Trim(SubArray(buffer, offset, crlfPos)), 16)
        dataStart == crlfPos + 2
        dataEnd == dataStart + chunkSize.val
        none == [kind |-> "break", offset |-> offset, emit |-> FALSE, chunk |-> <<>>]
    IN  IF crlfPos = -1 THEN none
        ELSE IF chunkSize.nan THEN [none EXCEPT !.kind = "next", !.offset = crlfPos + 2]
        ELSE IF chunkSize.val = 0 THEN [none EXCEPT !.offset = Len(buffer)]
        ELSE IF dataEnd > Len(buffer) THEN none
        ELSE [kind |-> "next", offset |-> dataEnd + 2, emit |-> TRUE,
              chunk |-> SubArray(buffer, dataStart, dataEnd)]

\* One iteration of processChunkedData's while loop at `offset`
\* (offset < buffer.length): kind "break" or "next"; `emit` says whether onData
\* was called, with `chunk`; `offset` is the offset the iteration leaves.
processChunkedStep(buffer, offset) ==
    LET crlfPos == FindCRLF(buffer, offset)
        sizeLine == SubArray(buffer, offset, crlfPos)
        chunkSize == ParseInt(Trim(sizeLine), 16)
        dataStart == crlfPos + 2
        dataEnd == dataStart + chunkSize.val
        none == [kind |-> "break", offset |-> offset, emit |-> FALSE, chunk |-> <<>>]
    IN  IF crlfPos = -1 THEN none
        ELSE IF chunkSize.nan THEN [none EXCEPT !.kind = "next", !.offset = crlfPos + 2]
        ELSE IF chunkSize.val = 0 THEN [none EXCEPT !.offset = Len(buffer)]
        ELSE IF dataEnd + 2 > Len(buffer) THEN none
        ELSE [kind |-> "next", offset |-> dataEnd + 2, emit |-> TRUE,
              chunk |-> SubArray(buffer, dataStart, dataEnd)]

RECURSIVE processChunkedLoop(_, _, _)
processChunkedLoop(buffer, offset, emitted) ==
    IF ~(offset < Len(buffer)) THEN [emitted |-> emitted, rest |-> SubArrayFrom(buffer, offset)]
    ELSE LET st == processChunkedStep(buffer, offset)
             out == IF st.emit THEN Append(emitted, st.chunk) ELSE emitted
         IN  IF st.kind = "break"
             THEN [emitted |-> out, rest |-> SubArrayFrom(buffer, st.offset)]
             ELSE processChunkedLoop(buffer, st.offset, out)

\* processChunkedData(buffer, onData): the data regions passed to onData, in
\* call order, and the returned remaining bytes.
processChunkedData(buffer) == processChunkedLoop(buffer, 0, <<>>)

\* ------------------------------------------------------------ text encoding
\* A JavaScript string is a sequence of UTF-16 code units.

IsHighSurrogate(u) == u >= 55296 /\ u <= 56319
IsLowSurrogate(u) == u >= 56320 /\ u <= 57343

\* The UTF-8 bytes of one code point.
EncodeCodePoint(cp) ==
    IF cp < 128 THEN <<cp>>
    ELSE IF cp < 2048 THEN <<192 + (cp \div 64), 128 + (cp % 64)>>
    ELSE IF cp < 65536
    THEN <<224 + (cp \div 4096), 128 + ((cp \div 64) % 64), 128 + (cp % 64)>>
    ELSE <<240 + (cp \div 262144), 128 + ((cp \div 4096) % 64), 128 + ((cp \div 64) % 64),
           128 + (cp % 64)>>

\* The concatenation of parts[lo..hi], by halves.
RECURSIVE ConcatRange(_, _, _)
ConcatRange(parts, lo, hi) ==
    IF lo > hi THEN <<>>
    ELSE IF lo = hi THEN parts[lo]
    ELSE LET mid == (lo + hi) \div 2
         IN  ConcatRange(parts, lo, mid) \o ConcatRange(parts, mid + 1, hi)

\* new TextEncoder().encode(str): a high surrogate followed by a low one is one
\* code point, a surrogate on its own is encoded as U+FFFD.
Utf8Encode(str) ==
    LET pairStart(i) == IsHighSurrogate(str[i]) /\ i < Len(str) /\ IsLowSurrogate(str[i + 1])
        pairEnd(i) == IsLowSurrogate(str[i]) /\ i > 1 /\ IsHighSurrogate(str[i - 1])
        bytes(i) ==
            IF pairEnd(i) THEN <<>>
            ELSE IF pairStart(i)
            THEN EncodeCodePoint(65536 + (str[i] - 55296) * 1024 + (str[i + 1] - 56320))
            ELSE IF IsHighSurrogate(str[i]) \/ IsLowSurrogate(str[i]) THEN EncodeCodePoint(65533)
            ELSE EncodeCodePoint(str[i])
    IN  ConcatRange([i \in 1..Len(str) |-> bytes(i)], 1, Len(str))

\* The UTF-16 code units of one code point.
CodeUnits(cp) ==
    IF cp < 65536 THEN <<cp>>
    ELSE <<55296 + ((cp - 65536) \div 1024), 56320 + ((cp - 65536) % 1024)>>

\* The UTF-8 decoder from the byte at i (1-based) on: a byte sequence that is
\* not well formed gives one U+FFFD for its longest well-formed start, and the
\* byte that broke it is decoded again; so does the end of the input.
RECURSIVE DecodeFrom(_, _)
DecodeFrom(bytes, i) ==
    IF i > Len(bytes) THEN <<>>
    ELSE LET b == bytes[i]
             need == IF b >= 194 /\ b <= 223 THEN 1
                     ELSE IF b >= 224 /\ b <= 239 THEN 2
                     ELSE IF b >= 240 /\ b <= 244 THEN 3
                     ELSE 0
             lower == IF b = 224 THEN 160 ELSE IF b = 240 THEN 144 ELSE 128
             upper == IF b = 237 THEN 159 ELSE IF b = 244 THEN 143 ELSE 191
             okAt(k) == /\ i + k <= Len(bytes)
                        /\ bytes[i + k] >= (IF k = 1 THEN lower ELSE 128)
                        /\ bytes[i + k] <= (IF k = 1 THEN upper ELSE 191)
             valid == IF ~okAt(1) THEN 0
                      ELSE IF need = 1 \/ ~okAt(2) THEN 1
                      ELSE IF need = 2 \/ ~okAt(3) THEN 2
                      ELSE 3
             cp == CASE need = 1 -> (b - 192) * 64 + (bytes[i + 1] - 128)
                     [] need = 2 -> (b - 224) * 4096 + (bytes[i + 1] - 128) * 64
                                        + (bytes[i + 2] - 128)
                     [] OTHER -> (b - 240) * 262144 + (bytes[i + 1] - 128) * 4096
                                        + (bytes[i + 2] - 128) * 64 + (bytes[i + 3] - 128)
         IN  IF b < 128 THEN <<b>> \o DecodeFrom(bytes, i + 1)
             ELSE IF need = 0 THEN <<65533>> \o DecodeFrom(bytes, i + 1)
             ELSE IF valid = need THEN CodeUnits(cp) \o DecodeFrom(bytes, i + need + 1)
             ELSE <<65533>> \o DecodeFrom(bytes, i + valid + 1)

\* new TextDecoder().decode(bytes): UTF-8, a byte order mark at the start is
\* left out, and what is not well formed becomes U+FFFD.
Utf8Decode(bytes) ==
    IF Len(bytes) >= 3 /\ SubSeq(bytes, 1, 3) = <<239, 187, 191>>
    THEN DecodeFrom(bytes, 4)
    ELSE DecodeFrom(bytes, 1)

\* String.prototype.split on one separator character.
RECURSIVE Split(_, _)
Split(str, sep) ==
    LET hits == {i \in 1..Len(str) : str[i] = sep}
    IN  IF hits = {} THEN <<str>>
        ELSE <<SubSeq(str, 1, Least(hits) - 1)>>
                 \o Split(SubSeq(str, Least(hits) + 1, Len(str)), sep)

\* Array.prototype.join.
RECURSIVE Join(_, _)
Join(strs, sep) ==
    IF strs = <<>> THEN <<>>
    ELSE IF Len(strs) = 1 THEN strs[1]
    ELSE strs[1] \o sep \o Join(Tail(strs), sep)

\* --------------------------------------------------------------- the daemon

\* Response header blocks the daemon may send, each ending in CR LF CR LF.
\* "HTTP/1.1 200 OK" CRLF "Transfer-Encoding: chunked" CRLF CRLF
HeaderChunked ==
    <<72, 84, 84, 80, 47, 49, 46, 49, 32, 50, 48, 48, 32, 79, 75>> \o CRLF \o
    <<84, 114, 97, 110, 115, 102, 101, 114, 45, 69, 110, 99, 111, 100, 105, 110, 103,
      58, 32, 99, 104, 117, 110, 107, 101, 100>> \o CRLFCRLF
\* "HTTP/1.1 200 OK" CRLF CRLF
HeaderPlain == <<72, 84, 84, 80, 47, 49, 46, 49, 32, 50, 48, 48, 32, 79, 75>> \o CRLFCRLF
\* "HTTP/1.1 404 Not Found" CRLF CRLF
HeaderNotFound ==
    <<72, 84, 84, 80, 47, 49, 46, 49, 32, 52, 48, 52, 32, 78, 111, 116, 32, 70, 111, 117,
      110, 100>> \o CRLFCRLF
\* "BAD" CRLF CRLF
HeaderBadStatus == <<66, 65, 68>> \o CRLFCRLF

\* The data regions a chunk may carry: "a", CR LF, and "0" CR LF CR LF "1" CR LF
\* "b" CR (the bytes of a last-chunk line and of a chunk; ten bytes, so that the
\* size line is the hexadecimal letter "a").
ChunkData == {<<97>>, <<13, 10>>, <<48, 13, 10, 13, 10, 49, 13, 10, 98, 13>>}

\* Bodies of responses that are not chunked; one holds CR LF CR LF.
PlainBodies == {<<>>, <<97>>, <<97, 13, 10, 13, 10, 98>>}

\* Trailer sections after the last chunk: none, or "X: 1" CRLF.
Trailers == {<<>>, <<88, 58, 32, 49>> \o CRLF}

RECURSIVE SeqsUpTo(_, _)
SeqsUpTo(S, n) ==
    IF n = 0 THEN {<<>>}
    ELSE LET shorter == SeqsUpTo(S, n - 1)
         IN  shorter \cup {Append(q, x) : q \in {r \in shorter : Len(r) = n - 1}, x \in S}

ChunkLists == SeqsUpTo(ChunkData, MaxChunks)

\* n > 0 in lowercase hexadecimal, as character codes.
RECURSIVE ToHex(_)
ToHex(n) ==
    LET d == n % 16
        c == IF d < 10 THEN 48 + d ELSE 87 + d
    IN  IF n < 16 THEN <<c>> ELSE Append(ToHex(n \div 16), c)

\* Chunked transfer-encoding of the chunks cs: per chunk its size line, its data
\* and CRLF; then the last-chunk line "0" CRLF, the trailer section and CRLF.
RECURSIVE EncodeChunks(_)
EncodeChunks(cs) ==
    IF cs = <<>> THEN <<>>
    ELSE ToHex(Len(Head(cs))) \o CRLF \o Head(cs) \o CRLF \o EncodeChunks(Tail(cs))

EncodeChunked(cs, trailer) == EncodeChunks(cs) \o <<48>> \o CRLF \o trailer \o CRLF

\* What the daemon answers: kind, the payload (the chunks of a chunked body, or
\* the one body of the others) and the trailer of a chunked body.
Response(kind, payload, trailer) == [kind |-> kind, payload |-> payload, trailer |-> trailer]

\* The frames the daemon may send: stdout "a" LF, stderr U+00E9 LF (in UTF-8),
\* stdin LF, and stdout with no payload.
LogFrames ==
    {[type |-> 1, payload |-> <<97, 10>>], [type |-> 2, payload |-> <<195, 169, 10>>],
     [type |-> 0, payload |-> <<10>>], [type |-> 1, payload |-> <<>>]}

\* The bytes in raw log text: "a", LF, and the two bytes of U+00E9 in UTF-8.
RawBytes == {97, 10, 195, 169}

\* n < 2^31 as four bytes, most significant first.
BigEndian32(n) ==
    <<(n \div 16777216) % 256, (n \div 65536) % 256, (n \div 256) % 256, n % 256>>

\* A frame on the wire: the stream type, three zero bytes, the payload's
\* length and the payload.
FrameBytes(f) == <<f.type, 0, 0, 0>> \o BigEndian32(Len(f.payload)) \o f.payload

\* The log streams: multiplexed (the frames) or raw text of a TTY (the text).
LogStreams ==
    {[kind |-> "logs", tty |-> FALSE, frames |-> fs, text |-> <<>>] :
        fs \in SeqsUpTo(LogFrames, MaxFrames)}
    \cup {[kind |-> "logs", tty |-> TRUE, frames |-> <<>>, text |-> t] :
        t \in SeqsUpTo(RawBytes, MaxRawBytes)}

\* Raw text of a TTY with control characters in it: "a" LF SOH LF; "a" LF STX
\* "aa" LF; SOH "aaaBBBB" LF SOH "a" LF, whose first eight bytes read as a frame
\* header of length 0x42424242; and the same with "a" LF after the first line.
ControlTexts ==
    {<<97, 10, 1, 10>>,
     <<97, 10, 2, 97, 97, 10>>,
     <<1, 97, 97, 97, 66, 66, 66, 66, 10, 1, 97, 10>>,
     <<1, 97, 97, 97, 66, 66, 66, 66, 10, 97, 10>>}

ControlStreams ==
    {[kind |-> "logs", tty |-> TRUE, frames |-> <<>>, text |-> t] : t \in ControlTexts}

\* Pieces of a chunked body: the chunk "a", the size lines "-6" and "zz", and
\* the last chunk with the empty trailer.
BodyPieces ==
    {<<49, 13, 10, 97, 13, 10>>, <<45, 54, 13, 10>>, <<122, 122, 13, 10>>,
     <<48, 13, 10, 13, 10>>}

\* Bodies handed to the chunked decoders, and which decoder gets them: up to
\* two pieces.
ChunkedBuffers ==
    {[kind |-> "body", streaming |-> s, bytes |-> combineChunks(ps)] :
        s \in BOOLEAN, ps \in SeqsUpTo(BodyPieces, 2)}

\* Length fields of a frame header: 1, 1,000,000, 1,000,001, 2^31 - 256, and,
\* with the top bit set, 2^32 - 8 and 2^32 - 1.
LengthFields ==
    {<<0, 0, 0, 1>>, <<0, 15, 66, 64>>, <<0, 15, 66, 65>>, <<127, 255, 255, 0>>,
     <<255, 255, 255, 248>>, <<255, 255, 255, 255>>}

\* What follows the first header in the buffer: nothing, a payload byte, or a
\* payload byte and a whole frame.
AfterHeader == {<<>>, <<97>>, <<10, 1, 0, 0, 0, 0, 0, 0, 1, 97>>}

\* Buffers handed to the log frame decoders, and which decoder gets them: a
\* header of stream type 1 or 2 with one of the length fields, and what follows.
FrameBuffers ==
    {[kind |-> "frames", streaming |-> s, bytes |-> <<t, 0, 0, 0>> \o l \o a] :
        s \in BOOLEAN, t \in {1, 2}, l \in LengthFields, a \in AfterHeader}

\* The body of the log response r, as the transport hands it on.
LogBytes(r) ==
    IF r.tty THEN r.text
    ELSE ConcatRange([i \in 1..Len(r.frames) |-> FrameBytes(r.frames[i])], 1, Len(r.frames))

\* The lines of an event stream: "{}", "1", "{", " " and the empty line.
EventLines == {<<123, 125>>, <<49>>, <<123>>, <<32>>, <<>>}

\* The event streams: each line is followed by LF.
EventStreams == {[kind |-> "events", lines |-> ls] : ls \in SeqsUpTo(EventLines, MaxEventLines)}

\* Lines of an event stream with text outside ASCII: the JSON string of the
\* one character U+00E9 (in UTF-8), "{}" and "1".
TextEventLines == {<<34, 195, 169, 34>>, <<123, 125>>, <<49>>}

\* Event streams of up to two such lines.
TextEventStreams == {[kind |-> "events", lines |-> ls] : ls \in SeqsUpTo(TextEventLines, 2)}

\* The body of the event response r, as the transport hands it on.
EventBytes(r) == ConcatRange([i \in 1..Len(r.lines) |-> Append(r.lines[i], 10)], 1, Len(r.lines))

\* n >= 0 in decimal, as character codes.
RECURSIVE ToDec(_)
ToDec(n) == IF n < 10 THEN <<48 + n>> ELSE Append(ToDec(n \div 10), 48 + (n % 10))

\* Status codes the daemon may answer with, on both sides of 200 and of 300 and
\* with two, three and four digits.
StatusCodes == {99, 199, 200, 204, 299, 300, 404, 1000}

\* "HTTP/1.1 <code>" CRLF CRLF
StatusHeader(code) == <<72, 84, 84, 80, 47, 49, 46, 49, 32>> \o ToDec(code) \o CRLFCRLF

\* An answer with the status `code` and the body `body`, not chunked.
Status(code, body) == [kind |-> "status", payload |-> <<body>>, trailer |-> <<>>, code |-> code]

\* A chunked answer the daemon stops in the middle of: the chunks cs, of which
\* the last one's size line is whole and only `avail` of its data bytes follow.
Truncated(cs, avail) == [kind |-> "truncated", payload |-> cs, trailer |-> <<>>, avail |-> avail]

\* The items of a chunked body that is not well-formed: a line that parseInt
\* cannot read, a chunk, or a chunk whose size line has more than the size.
BadLine(line) == [bad |-> TRUE, line |-> line, bytes |-> <<>>]
Chunk(data) == [bad |-> FALSE, line |-> ToHex(Len(data)), bytes |-> data]
ChunkWithLine(line, data) == [bad |-> FALSE, line |-> line, bytes |-> data]

EncodeItem(it) ==
    IF it.bad THEN it.line \o CRLF
    ELSE it.line \o CRLF \o it.bytes \o CRLF

RECURSIVE EncodeItems(_)
EncodeItems(items) ==
    IF items = <<>> THEN <<>> ELSE EncodeItem(Head(items)) \o EncodeItems(Tail(items))

\* A chunked answer of such items, ended by "0" CRLF CRLF.
Garbled(items) == [kind |-> "garbled", payload |-> items, trailer |-> <<>>]

\* Bodies with the lines "zz", "" and "g1" before, between and after the
\* chunks "a" and "b".
GarbledResponses ==
    {Garbled(<<BadLine(<<122, 122>>), Chunk(<<97>>)>>),
     Garbled(<<Chunk(<<97>>), BadLine(<<>>), Chunk(<<98>>)>>),
     Garbled(<<BadLine(<<103, 49>>), BadLine(<<122, 122>>), Chunk(<<97>>)>>),
     Garbled(<<Chunk(<<97>>), BadLine(<<122, 122>>)>>)}

\* Size lines of a one-byte chunk that are more than the hexadecimal number:
\* "1z", "1;x" (a chunk extension), " 1", "0x1" and "+1".
LooseSizeLines ==
    {<<49, 122>>, <<49, 59, 120>>, <<32, 49>>, <<48, 120, 49>>, <<43, 49>>}

\* Bodies of one-shot responses: those above, and the chunk "a" under each of
\* these size lines, followed by the chunk "b".
OneShotGarbledResponses ==
    GarbledResponses
        \cup {Garbled(<<ChunkWithLine(l, <<97>>), Chunk(<<98>>)>>) : l \in LooseSizeLines}

Front(cs) == SubSeq(cs, 1, Len(cs) - 1)
Last(cs) == cs[Len(cs)]

WireOf(r) ==
    CASE r.kind = "chunked" -> HeaderChunked \o EncodeChunked(r.payload, r.trailer)
      [] r.kind = "truncated" ->
            HeaderChunked \o EncodeChunks(Front(r.payload)) \o ToHex(Len(Last(r.payload)))
                \o CRLF \o SubSeq(Last(r.payload), 1, r.avail)
      [] r.kind = "garbled" -> HeaderChunked \o EncodeItems(r.payload) \o <<48>> \o CRLFCRLF
      [] r.kind = "status" -> StatusHeader(r.code) \o combineChunks(r.payload)
      [] r.kind = "logs" -> LogBytes(r)
      [] r.kind = "frames" -> r.bytes
      [] r.kind = "body" -> r.bytes
      [] r.kind = "inspect" -> <<>>
      [] r.kind = "events" -> EventBytes(r)
      [] r.kind = "plain" -> HeaderPlain \o combineChunks(r.payload)
      [] r.kind = "notfound" -> HeaderNotFound \o combineChunks(r.payload)
      [] OTHER -> HeaderBadStatus \o combineChunks(r.payload)

UnchunkedResponses ==
    {Response(k, <<b>>, <<>>) : k \in {"plain", "notfound", "badstatus"}, b \in PlainBodies}

\* Streaming responses carry no trailer section.
StreamResponses == {Response("chunked", cs, <<>>) : cs \in ChunkLists} \cup UnchunkedResponses

StatusResponses == {Status(c, b) : c \in StatusCodes, b \in PlainBodies}

TruncatedResponses ==
    UNION {{Truncated(cs, a) : a \in {0, 1, Len(Last(cs)) - 1} \cap (0..(Len(Last(cs)) - 1))} :
           cs \in ChunkLists \ {<<>>}}

OneShotResponses ==
    {Response("chunked", cs, t) : cs \in ChunkLists, t \in Trailers} \cup UnchunkedResponses
        \cup StatusResponses \cup TruncatedResponses

\* -------------------------------------------------------------------- state

VARIABLES
    resp,         \* the daemon: the response it sends on this connection
    wire,         \* the daemon: the bytes of that response
    rpos,         \* how many bytes of wire the client has read
    pc,           \* where the request is: idle, connecting, writing, headers, reading,
                  \* ended, failed, done
    conn,         \* the connection: none, open, closed
    chunks,       \* chunks: the arrays read so far by readResponse / readStreamHeaders
                  \* (a local: empty again once the function has returned)
    isCancelled,  \* requestStream's isCancelled flag
    cancellable,  \* whether the Gio.Cancellable of the stream is cancelled
    isChunked,    \* headerResult.isChunked
    chunkBuffer,  \* the chunk buffer of processData's closure
    events,       \* the caller's view: its callbacks and cancel() calls, in order
    delivered,    \* the arguments of the onData calls, in order
    cancelCalls,  \* the number of cancel() calls made on the handle
    loopEnd,      \* how readStreamLoop ended: none, eof, error, aborted, stopped
    outcome,      \* the promise of the call: none, pending, handle, resolved, rejected
    lastError,    \* the last error thrown or passed to onError
    result,       \* the body a one-shot request resolved with
    req,          \* the request being made: method, path, body, whether it streams
    sent,         \* the bytes written to the connection's output stream
    lineBuffer,   \* the `buffer` of the onData closure of streamContainerLogs / streamEvents
    lineCalls,    \* the arguments of the onLine / onEvent calls, in order
    output,       \* what getContainerLogs returned
    other,        \* a second stream of the same client: the locals of its requestStream call
    repoTag,      \* the argument of parseRepoTag
    nameTag,      \* the [name, tag] it returned
    labels,       \* container.Labels, the argument of extractComposeInfo
    container,    \* what processContainer returned
    modes,        \* how each call of parseStreamingLogFrames of the log stream decoded its buffer
    monitor       \* the locals of a monitorUntilStartedOrExited call, its timer and its promise

vars == <<resp, wire, rpos, pc, conn, chunks, isCancelled, cancellable, isChunked,
          chunkBuffer, events, delivered, cancelCalls, loopEnd, outcome, lastError, result,
          req, sent, lineBuffer, lineCalls, output, other, repoTag, nameTag, labels,
          container, modes, monitor>>

daemonVars == <<resp, wire>>
streamVars == <<isCancelled, cancellable, isChunked, chunkBuffer, events, delivered,
                cancelCalls, loopEnd>>
clientVars == <<req, sent, lineBuffer, lineCalls, output>>
typesVars == <<repoTag, nameTag, labels, container>>
extraVars == <<modes, monitor>>
sideVars == <<other, typesVars, extraVars>>

\* An error: its message, the status code and the body text interpolated into
\* it, and the prefixes later catch blocks wrapped it with, innermost first.
Error(msg) == [msg |-> msg, code |-> 0, body |-> <<>>, wraps |-> <<>>]
NoError == Error("")
Wrap(e, prefix) == [e EXCEPT !.wraps = Append(@, prefix)]

\* No request: the connection specifications leave the request's text out.
NoRequest == [method |-> <<>>, path |-> <<>>, body |-> <<>>, hasBody |-> FALSE, streams |-> FALSE]

\* The connection after construction, with the daemon's response drawn from
\* `responses`.
InitConnection(responses) ==
    /\ resp \in responses
    /\ wire = WireOf(resp)
    /\ rpos = 0
    /\ pc = "idle"
    /\ conn = "none"
    /\ chunks = <<>>
    /\ isCancelled = FALSE
    /\ cancellable = FALSE
    /\ isChunked = FALSE
    /\ chunkBuffer = <<>>
    /\ events = <<>>
    /\ delivered = <<>>
    /\ cancelCalls = 0
    /\ loopEnd = "none"
    /\ outcome = "none"
    /\ lastError = NoError
    /\ result = <<>>

\* No second stream: requestStream was called once only.
NoStream ==
    [pc |-> "none", conn |-> "none", isChunked |-> FALSE, isCancelled |-> FALSE,
     cancellable |-> FALSE, chunkBuffer |-> <<>>, events |-> <<>>, delivered |-> <<>>,
     rpos |-> 0, cancelCalls |-> 0, loopEnd |-> "none"]

\* No container processed yet.
NoContainer == [isCompose |-> FALSE, hasComposeInfo |-> FALSE]

\* monitorUntilStartedOrExited has not been called: no timer, no inspect call
\* in flight, no promise.
NoMonitor ==
    [timer |-> "none", inflight |-> 0, promise |-> "none", value |-> "", removes |-> 0,
     statusCalls |-> <<>>, ticks |-> 0]

\* The data normalisation of DockerClient has not been called.
InitTypes ==
    /\ repoTag = <<>>
    /\ nameTag = <<>>
    /\ labels = <<>>
    /\ container = NoContainer

\* No log stream decoded, no monitor started.
InitExtra ==
    /\ modes = <<>>
    /\ monitor = NoMonitor

\* One call only, and no data normalisation.
InitSide ==
    /\ other = NoStream
    /\ InitTypes
    /\ InitExtra

\* The state after construction, with the request's text left out.
InitWith(responses) ==
    /\ InitConnection(responses)
    /\ InitSide
    /\ req = NoRequest
    /\ sent = <<>>
    /\ lineBuffer = <<>>
    /\ lineCalls = <<>>
    /\ output = <<>>

HeaderOf(kind) ==
    CASE kind \in {"chunked", "garbled"} -> HeaderChunked
      [] kind = "plain" -> HeaderPlain
      [] kind = "notfound" -> HeaderNotFound
      [] OTHER -> HeaderBadStatus

\* The header block of the response r.
HeaderBlock(r) ==
    CASE r.kind = "status" -> StatusHeader(r.code)
      [] r.kind = "truncated" -> HeaderChunked
      [] OTHER -> HeaderOf(r.kind)

\* Where a read of the header phase may end: the daemon's header block arrives
\* cut after its first byte or anywhere from the start of its CR LF CR LF on;
\* the body may be cut at every byte.
StreamReadEnds == {p \in (rpos + 1)..Len(wire) : p = 1 \/ p >= Len(HeaderOf(resp.kind)) - 4}

\* n "data" events.
DataEvents(n) == [i \in 1..n |-> "data"]

\* ---------------------------------------------------------- requestStream

\* requestStream's catch block without its onClose call.
requestStreamCatchNoClose(ev) == Append(ev, "error")

\* The catch block of requestStream: onError, then onClose (the call rejects).
requestStreamCatch(ev) == ev \o <<"error", "close">>

\* readStreamHeaders taking the remainder from the middle of the terminator.
readStreamHeadersResultShortSkip(combined) ==
    LET headerEnd == findHeaderEnd(combined)
        headers == SubArray(combined, 0, headerEnd)
        statusMatch == StatusMatch(StatusLine(headers))
        statusCode == ParseInt(statusMatch, 10).val
        r == [done |-> TRUE, success |-> FALSE, error |-> NoError,
              remainingData |-> <<>>, isChunked |-> FALSE]
    IN  IF headerEnd = -1 THEN [r EXCEPT !.done = FALSE]
        ELSE IF statusMatch = <<>> THEN [r EXCEPT !.error = Error("Invalid HTTP status line")]
        ELSE IF statusCode < 200 \/ statusCode >= 300
             THEN [r EXCEPT !.error = [Error("HTTP error") EXCEPT !.code = statusCode]]
        ELSE [r EXCEPT !.success = TRUE,
                       !.remainingData = SubArrayFrom(combined, headerEnd + 2),
                       !.isChunked = IsChunkedHeaders(headers)]

\* readStreamHeaders after a read: what it returns once `combined` holds the
\* header terminator (done), or that it reads on.
readStreamHeadersResult(combined) ==
    LET headerEnd == findHeaderEnd(combined)
        headers == SubArray(combined, 0, headerEnd)
        statusMatch == StatusMatch(StatusLine(headers))
        statusCode == ParseInt(statusMatch, 10).val
        r == [done |-> TRUE, success |-> FALSE, error |-> NoError,
              remainingData |-> <<>>, isChunked |-> FALSE]
    IN  IF headerEnd = -1 THEN [r EXCEPT !.done = FALSE]
        ELSE IF statusMatch = <<>> THEN [r EXCEPT !.error = Error("Invalid HTTP status line")]
        ELSE IF statusCode < 200 \/ statusCode >= 300
             THEN [r EXCEPT !.error = [Error("HTTP error") EXCEPT !.code = statusCode]]
        ELSE [r EXCEPT !.success = TRUE,
                       !.remainingData = SubArrayFrom(combined, headerEnd + 4),
                       !.isChunked = IsChunkedHeaders(headers)]

\* processData decoding each arrival on its own, the buffered bytes dropped.
processDataNoBuffer(chunked, buffer, data) ==
    IF chunked THEN processChunkedData(data)
    ELSE [emitted |-> <<data>>, rest |-> buffer]

\* processData(data): with chunked encoding the data is appended to the chunk
\* buffer and the complete chunks go to onData; otherwise the data goes to
\* onData as it is.  `emitted` are the onData arguments, `rest` the new buffer.
processData(chunked, buffer, data) ==
    IF chunked THEN processChunkedData(buffer \o data)
    ELSE [emitted |-> <<data>>, rest |-> buffer]

\* StreamHandle.cancel() flipping the flag back when called again.
handleCancelToggle(st) ==
    [st EXCEPT !.isCancelled = ~@, !.cancellable = TRUE, !.conn = "closed",
               !.events = IF st.isCancelled THEN Append(@, "cancel")
                          ELSE @ \o <<"cancel", "close">>]

\* StreamHandle.cancel() without its isCancelled guard.
handleCancelUnguarded(st) ==
    [st EXCEPT !.isCancelled = TRUE, !.cancellable = TRUE, !.conn = "closed",
               !.events = @ \o <<"cancel", "close">>]

\* StreamHandle.cancel() on [isCancelled, cancellable, conn, events].
handleCancel(st) ==
    LET called == [st EXCEPT !.events = Append(@, "cancel")]
    IN  IF ~st.isCancelled
        THEN [called EXCEPT !.isCancelled = TRUE, !.cancellable = TRUE, !.conn = "closed",
                            !.events = Append(@, "close")]
        ELSE called

\* readStreamLoop's catch block reporting every rejected read.
loopCatchUnguarded(ev, cancelled) == Append(ev, "error")

\* readStreamLoop's catch block, given cancellable.is_cancelled().
loopCatch(ev, cancelled) == IF ~cancelled THEN Append(ev, "error") ELSE ev

\* readStreamLoop's finally block with its test inverted.
loopFinallyInverted(ev, cancelled) == IF cancelled THEN Append(ev, "close") ELSE ev

\* readStreamLoop's finally block, given cancellable.is_cancelled().
loopFinally(ev, cancelled) == IF ~cancelled THEN Append(ev, "close") ELSE ev

\* requestStream is called: the cancellable is created and connect_async awaited.
requestStream ==
    /\ pc = "idle"
    /\ pc' = "connecting"
    /\ outcome' = "pending"
    /\ UNCHANGED <<daemonVars, sideVars, clientVars, rpos, conn, chunks, streamVars, lastError,
                   result>>

\* An error thrown inside requestStream's try block.
requestStreamThrow(e) ==
    /\ pc' = "failed"
    /\ outcome' = "rejected"
    /\ lastError' = e
    /\ events' = requestStreamCatch(events)
    /\ UNCHANGED <<daemonVars, sideVars, clientVars, isCancelled, cancellable, isChunked,
                   chunkBuffer, delivered, cancelCalls, loopEnd, result>>

streamConnected ==
    /\ pc = "connecting"
    /\ pc' = "writing"
    /\ conn' = "open"
    /\ UNCHANGED <<daemonVars, sideVars, clientVars, rpos, chunks, streamVars, outcome, lastError,
                   result>>

streamConnectFails ==
    /\ pc = "connecting"
    /\ requestStreamThrow(Error("connect"))
    /\ UNCHANGED <<rpos, conn, chunks>>

streamWritten ==
    /\ pc = "writing"
    /\ pc' = "headers"
    /\ UNCHANGED <<daemonVars, sideVars, clientVars, rpos, conn, chunks, streamVars, outcome,
                   lastError, result>>

streamWriteFails ==
    /\ pc = "writing"
    /\ requestStreamThrow(Error("write"))
    /\ UNCHANGED <<rpos, conn, chunks>>

\* One read_bytes of readStreamHeaders that returns data, and what follows it:
\* another read, a rejected status, or the initial remainder fed to processData,
\* the read loop started with its first read in flight, and the handle returned.
readStreamHeaders ==
    /\ pc = "headers"
    /\ \E p \in StreamReadEnds :
        LET read == Append(chunks, SubSeq(wire, rpos + 1, p))
            hr == readStreamHeadersResult(combineChunks(read))
            pd == IF Len(hr.remainingData) > 0
                  THEN processData(hr.isChunked, <<>>, hr.remainingData)
                  ELSE [emitted |-> <<>>, rest |-> <<>>]
        IN  /\ rpos' = p
            /\ UNCHANGED <<daemonVars, sideVars, clientVars, conn, result>>
            /\ IF ~hr.done
               THEN /\ chunks' = read
                    /\ UNCHANGED <<pc, streamVars, outcome, lastError>>
               ELSE IF ~hr.success
               THEN /\ chunks' = <<>>
                    /\ requestStreamThrow(hr.error)
               ELSE /\ chunks' = <<>>
                    /\ pc' = "reading"
                    /\ outcome' = "handle"
                    /\ isChunked' = hr.isChunked
                    /\ chunkBuffer' = pd.rest
                    /\ delivered' = delivered \o pd.emitted
                    /\ events' = events \o DataEvents(Len(pd.emitted))
                    /\ UNCHANGED <<isCancelled, cancellable, cancelCalls, loopEnd, lastError>>

\* read_bytes returns zero bytes before the header terminator was found.
readStreamHeadersEOF ==
    /\ pc = "headers"
    /\ requestStreamThrow(Error("Connection closed before headers received"))
    /\ UNCHANGED <<rpos, conn, chunks>>

\* read_bytes throws.
readStreamHeadersThrows ==
    /\ pc = "headers"
    /\ requestStreamThrow(Error("read"))
    /\ UNCHANGED <<rpos, conn, chunks>>

\* readStreamLoop: a read resolves with data, which goes through processData to
\* the caller's onData; the caller may call cancel() from inside one of these
\* onData calls (the c-th; 0: none).  Then the loop tests the cancellable.
readStreamLoopData ==
    /\ pc = "reading"
    /\ ~cancellable
    /\ \E p \in (rpos + 1)..Len(wire) :
        LET pd == processData(isChunked, chunkBuffer, SubSeq(wire, rpos + 1, p))
            k == Len(pd.emitted)
        IN  \E c \in 0..k :
              LET st == [isCancelled |-> isCancelled, cancellable |-> cancellable,
                         conn |-> conn, events |-> events \o DataEvents(c)]
                  after == IF c > 0 THEN handleCancel(st) ELSE st
              IN  /\ c > 0 => cancelCalls < MaxCancels
                  /\ rpos' = p
                  /\ chunkBuffer' = pd.rest
                  /\ delivered' = delivered \o pd.emitted
                  /\ isCancelled' = after.isCancelled
                  /\ cancellable' = after.cancellable
                  /\ conn' = after.conn
                  /\ cancelCalls' = IF c > 0 THEN cancelCalls + 1 ELSE cancelCalls
                  /\ IF after.cancellable
                     THEN /\ pc' = "ended"
                          /\ loopEnd' = "stopped"
                          /\ events' = loopFinally(after.events \o DataEvents(k - c), TRUE)
                     ELSE /\ pc' = "reading"
                          /\ loopEnd' = loopEnd
                          /\ events' = after.events \o DataEvents(k - c)
    /\ UNCHANGED <<daemonVars, sideVars, clientVars, chunks, isChunked, outcome, lastError, result>>

\* A read resolves with zero bytes: the loop breaks and the finally block runs.
readStreamLoopEOF ==
    /\ pc = "reading"
    /\ ~cancellable
    /\ pc' = "ended"
    /\ loopEnd' = "eof"
    /\ events' = loopFinally(events, cancellable)
    /\ UNCHANGED <<daemonVars, sideVars, clientVars, rpos, conn, chunks, isCancelled, cancellable,
                   isChunked, chunkBuffer, delivered, cancelCalls, outcome, lastError, result>>

\* A read rejects while the cancellable is not cancelled.
readStreamLoopError ==
    /\ pc = "reading"
    /\ ~cancellable
    /\ pc' = "ended"
    /\ loopEnd' = "error"
    /\ lastError' = Error("read")
    /\ events' = loopFinally(loopCatch(events, cancellable), cancellable)
    /\ UNCHANGED <<daemonVars, sideVars, clientVars, rpos, conn, chunks, isCancelled, cancellable,
                   isChunked, chunkBuffer, delivered, cancelCalls, outcome, result>>

\* The read in flight rejects because the cancellable was cancelled: a Gio
\* asynchronous read given a cancellable finishes with G_IO_ERROR_CANCELLED once
\* the cancellable is cancelled, whatever the socket had ready, so after
\* cancel() this is the only way the pending read can end.
readStreamLoopAborted ==
    /\ pc = "reading"
    /\ cancellable
    /\ pc' = "ended"
    /\ loopEnd' = "aborted"
    /\ events' = loopFinally(loopCatch(events, cancellable), cancellable)
    /\ UNCHANGED <<daemonVars, sideVars, clientVars, rpos, conn, chunks, isCancelled, cancellable,
                   isChunked, chunkBuffer, delivered, cancelCalls, outcome, lastError, result>>

\* The caller calls cancel() on the handle it was returned.
cancel ==
    /\ outcome = "handle"
    /\ cancelCalls < MaxCancels
    /\ LET after == handleCancel([isCancelled |-> isCancelled, cancellable |-> cancellable,
                                  conn |-> conn, events |-> events])
       IN  /\ isCancelled' = after.isCancelled
           /\ cancellable' = after.cancellable
           /\ conn' = after.conn
           /\ events' = after.events
    /\ cancelCalls' = cancelCalls + 1
    /\ UNCHANGED <<daemonVars, sideVars, clientVars, rpos, pc, chunks, isChunked, chunkBuffer,
                   delivered, loopEnd, outcome, lastError, result>>

Init == InitWith(StreamResponses)

Next ==
    \/ requestStream
    \/ streamConnected
    \/ streamConnectFails
    \/ streamWritten
    \/ streamWriteFails
    \/ readStreamHeaders
    \/ readStreamHeadersEOF
    \/ readStreamHeadersThrows
    \/ readStreamLoopData
    \/ readStreamLoopEOF
    \/ readStreamLoopError
    \/ readStreamLoopAborted
    \/ cancel

Spec == Init /\ [][Next]_vars

\* The same stream when the daemon's chunked body has lines that are no chunk
\* sizes.
InitGarbled == InitWith(GarbledResponses)

SpecGarbled == InitGarbled /\ [][Next]_vars

\* ---------------------------------------------------- request / requestBinary

\* Variants of parseHttpResponseBytes: the header block ends at `splitIndex`
\* (-1: the response is rejected), the body starts at `bodyStart`, and the
\* status codes lo..hi-1 are the ones that raise no HTTP error.
parseHttpResponseVariant(response, splitIndex, bodyStart, lo, hi) ==
    LET headerBytes == SubArray(response, 0, splitIndex)
        bodyBytes == SubArrayFrom(response, bodyStart)
        statusMatch == StatusMatch(StatusLine(headerBytes))
        statusCode == ParseInt(statusMatch, 10).val
        decoded == decodeChunkedBytes(bodyBytes)
        thrown == [ok |-> FALSE, body |-> <<>>, error |-> NoError]
    IN  IF splitIndex = -1
        THEN [thrown EXCEPT !.error = Error("Invalid HTTP response: No header separator found")]
        ELSE IF statusMatch = <<>>
        THEN [thrown EXCEPT !.error = Error("Invalid HTTP status line")]
        ELSE IF statusCode < lo \/ statusCode >= hi
        THEN [thrown EXCEPT !.error = [Error("HTTP error") EXCEPT !.code = statusCode,
                                                                   !.body = bodyBytes]]
        ELSE IF IsChunkedHeaders(headerBytes)
        THEN IF decoded.ok THEN [ok |-> TRUE, body |-> decoded.body, error |-> NoError]
             ELSE [thrown EXCEPT !.error = Error("Invalid chunk size")]
        ELSE [ok |-> TRUE, body |-> bodyBytes, error |-> NoError]

\* String.prototype.lastIndexOf.
LastIndexOf(s, pat) ==
    LET hits == {i \in 0..(Len(s) - Len(pat)) : \A j \in 1..Len(pat) : s[i + j] = pat[j]}
    IN  IF hits = {} THEN -1 ELSE CHOOSE x \in hits : \A y \in hits : x >= y

\* parseHttpResponseBytes that takes status 300 for a success.
parseHttpResponseBytesThrough300(response) ==
    LET splitIndex == IndexOf(response, CRLFCRLF)
    IN  parseHttpResponseVariant(response, splitIndex, splitIndex + 4, 200, 301)

\* parseHttpResponseBytes that takes the body from the last CR LF CR LF on.
parseHttpResponseBytesLastSeparator(response) ==
    parseHttpResponseVariant(response, IndexOf(response, CRLFCRLF),
                             LastIndexOf(response, CRLFCRLF) + 4, 200, 300)

\* parseHttpResponseBytes that takes a response without CR LF CR LF for a
\* header block without a body.
parseHttpResponseBytesNoSeparator(response) ==
    LET splitIndex == IndexOf(response, CRLFCRLF)
    IN  IF splitIndex = -1
        THEN parseHttpResponseVariant(response, Len(response), Len(response), 200, 300)
        ELSE parseHttpResponseVariant(response, splitIndex, splitIndex + 4, 200, 300)

\* parseHttpResponseBytes: the body, or the error it throws.
parseHttpResponseBytes(response) ==
    LET splitIndex == IndexOf(response, CRLFCRLF)
        headerBytes == SubArray(response, 0, splitIndex)
        bodyBytes == SubArrayFrom(response, splitIndex + 4)
        statusMatch == StatusMatch(StatusLine(headerBytes))
        statusCode == ParseInt(statusMatch, 10).val
        decoded == decodeChunkedBytes(bodyBytes)
        thrown == [ok |-> FALSE, body |-> <<>>, error |-> NoError]
    IN  IF splitIndex = -1
        THEN [thrown EXCEPT !.error = Error("Invalid HTTP response: No header separator found")]
        ELSE IF statusMatch = <<>>
        THEN [thrown EXCEPT !.error = Error("Invalid HTTP status line")]
        ELSE IF statusCode < 200 \/ statusCode >= 300
        THEN [thrown EXCEPT !.error = [Error("HTTP error") EXCEPT !.code = statusCode,
                                                                   !.body = bodyBytes]]
        ELSE IF IsChunkedHeaders(headerBytes)
        THEN IF decoded.ok THEN [ok |-> TRUE, body |-> decoded.body, error |-> NoError]
             ELSE [thrown EXCEPT !.error = Error("Invalid chunk size")]
        ELSE [ok |-> TRUE, body |-> bodyBytes, error |-> NoError]

\* The connection after requestBinary's try block ended: it is closed on the
\* path that returns; the catch block only rethrows.
requestBinaryConn(c, returned) == IF returned THEN "closed" ELSE c

\* An error thrown inside requestBinary's try block: the catch block wraps it.
requestBinaryThrow(e) ==
    /\ pc' = "done"
    /\ outcome' = "rejected"
    /\ lastError' = Wrap(e, "Docker API request failed")
    /\ conn' = requestBinaryConn(conn, FALSE)
    /\ result' = <<>>
    /\ UNCHANGED <<daemonVars, sideVars, clientVars, streamVars>>

\* requestBinary is called and connect_async awaited.
requestBinary ==
    /\ pc = "idle"
    /\ pc' = "connecting"
    /\ outcome' = "pending"
    /\ UNCHANGED <<daemonVars, sideVars, clientVars, rpos, conn, chunks, streamVars, lastError,
                   result>>

connected ==
    /\ pc = "connecting"
    /\ pc' = "writing"
    /\ conn' = "open"
    /\ UNCHANGED <<daemonVars, sideVars, clientVars, rpos, chunks, streamVars, outcome, lastError,
                   result>>

connectFails ==
    /\ pc = "connecting"
    /\ requestBinaryThrow(Error("connect"))
    /\ UNCHANGED <<rpos, chunks>>

written ==
    /\ pc = "writing"
    /\ pc' = "response"
    /\ UNCHANGED <<daemonVars, sideVars, clientVars, rpos, conn, chunks, streamVars, outcome,
                   lastError, result>>

writeFails ==
    /\ pc = "writing"
    /\ requestBinaryThrow(Error("write"))
    /\ UNCHANGED <<rpos, chunks>>

\* Where a read of readResponse may end: after the first byte, inside and after
\* the header terminator, before the last byte and at the end of the response.
OneShotReadEnds ==
    LET h == Len(HeaderBlock(resp))
    IN  {p \in (rpos + 1)..Len(wire) : p \in {1, h - 2, h, Len(wire) - 1, Len(wire)}}

\* One read_bytes of readResponse that returns data.
readResponse ==
    /\ pc = "response"
    /\ \E p \in OneShotReadEnds :
        /\ rpos' = p
        /\ chunks' = Append(chunks, SubSeq(wire, rpos + 1, p))
    /\ UNCHANGED <<daemonVars, sideVars, clientVars, pc, conn, streamVars, outcome, lastError,
                   result>>

\* read_bytes returns zero bytes: the chunks are combined and parsed, and
\* requestBinary closes the connection and returns the body, or rethrows.
readResponseEOF ==
    /\ pc = "response"
    /\ LET parsed == parseHttpResponseBytes(combineChunks(chunks))
       IN  IF parsed.ok
           THEN /\ pc' = "done"
                /\ outcome' = "resolved"
                /\ result' = parsed.body
                /\ conn' = requestBinaryConn(conn, TRUE)
                /\ UNCHANGED <<daemonVars, sideVars, clientVars, streamVars, lastError>>
           ELSE requestBinaryThrow(Wrap(parsed.error, "Failed to read response"))
    /\ chunks' = <<>>
    /\ UNCHANGED rpos

\* read_bytes throws.
readResponseThrows ==
    /\ pc = "response"
    /\ requestBinaryThrow(Wrap(Error("read"), "Failed to read response"))
    /\ chunks' = <<>>
    /\ UNCHANGED rpos

InitOneShot == InitWith(OneShotResponses)

NextOneShot ==
    \/ requestBinary
    \/ connected
    \/ connectFails
    \/ written
    \/ writeFails
    \/ readResponse
    \/ readResponseEOF
    \/ readResponseThrows

SpecOneShot == InitOneShot /\ [][NextOneShot]_vars

\* The same call when the daemon's chunked body is not well-formed.
InitOneShotGarbled == InitWith(OneShotGarbledResponses)

SpecOneShotGarbled == InitOneShotGarbled /\ [][NextOneShot]_vars

\* ----------------------------------------- the chunked decoders, pass by pass

\* decodeChunkedBytes is called on the body: the while loop is entered at
\* index 0 with no chunks.
decodeChunkedCall ==
    /\ pc = "idle"
    /\ resp.kind = "body"
    /\ ~resp.streaming
    /\ pc' = "loop"
    /\ rpos' = 0
    /\ chunks' = <<>>
    /\ UNCHANGED <<daemonVars, sideVars, clientVars, conn, streamVars, outcome, lastError,
                   result>>

\* One pass of the while loop of decodeChunkedBytes at index rpos; when the
\* loop is left the chunks are combined and returned, and an invalid chunk
\* size is thrown.
decodeChunkedPass ==
    /\ pc = "loop"
    /\ ~resp.streaming
    /\ Len(chunks) < MaxPasses
    /\ IF ~(rpos < Len(wire))
       THEN /\ pc' = "done"
            /\ result' = combineChunks(chunks)
            /\ UNCHANGED <<rpos, chunks, lastError>>
       ELSE /\ rpos' = decodeChunkedStep(wire, rpos).index
            /\ chunks' = IF decodeChunkedStep(wire, rpos).pushed
                         THEN Append(chunks, decodeChunkedStep(wire, rpos).chunk)
                         ELSE chunks
            /\ pc' = CASE decodeChunkedStep(wire, rpos).kind = "next" -> "loop"
                        [] decodeChunkedStep(wire, rpos).kind = "throw" -> "failed"
                        [] OTHER -> "done"
            /\ lastError' = IF decodeChunkedStep(wire, rpos).kind = "throw"
                            THEN Error("Invalid chunk size")
                            ELSE lastError
            /\ result' = IF decodeChunkedStep(wire, rpos).kind = "break"
                         THEN combineChunks(chunks')
                         ELSE result
    /\ UNCHANGED <<daemonVars, sideVars, clientVars, conn, streamVars, outcome>>

\* processChunkedData is called on the buffer: the while loop is entered at
\* offset 0.
processChunkedCall ==
    /\ pc = "idle"
    /\ resp.kind = "body"
    /\ resp.streaming
    /\ pc' = "loop"
    /\ rpos' = 0
    /\ delivered' = <<>>
    /\ UNCHANGED <<daemonVars, sideVars, clientVars, conn, chunks, isCancelled, cancellable,
                   isChunked, chunkBuffer, events, cancelCalls, loopEnd, outcome, lastError,
                   result>>

\* One pass of the while loop of processChunkedData at offset rpos; when the
\* loop is left the remaining bytes are returned to the caller, which keeps
\* them in chunkBuffer.
processChunkedPass ==
    /\ pc = "loop"
    /\ resp.streaming
    /\ Len(delivered) < MaxPasses
    /\ IF ~(rpos < Len(wire))
       THEN /\ pc' = "done"
            /\ chunkBuffer' = SubArrayFrom(wire, rpos)
            /\ UNCHANGED <<rpos, delivered>>
       ELSE /\ rpos' = processChunkedStep(wire, rpos).offset
            /\ delivered' = IF processChunkedStep(wire, rpos).emit
                            THEN Append(delivered, processChunkedStep(wire, rpos).chunk)
                            ELSE delivered
            /\ pc' = IF processChunkedStep(wire, rpos).kind = "next" THEN "loop" ELSE "done"
            /\ chunkBuffer' = IF processChunkedStep(wire, rpos).kind = "next"
                              THEN chunkBuffer
                              ELSE SubArrayFrom(wire, rpos')
    /\ UNCHANGED <<daemonVars, sideVars, clientVars, conn, chunks, isCancelled, cancellable,
                   isChunked, events, cancelCalls, loopEnd, outcome, lastError, result>>

InitBodies == InitWith(ChunkedBuffers)

NextBodies == decodeChunkedCall \/ decodeChunkedPass \/ processChunkedCall \/ processChunkedPass

SpecBodies == InitBodies /\ [][NextBodies]_vars

\* ------------------------------------------------------ the request's text

\* Code units of request bodies: "a", U+00E9, U+20AC, and the two halves of the
\* surrogate pair of U+1F600.
BodyUnits == {97, 233, 8364, 55357, 56832}

\* "GET" and "POST"
Methods == {<<71, 69, 84>>, <<80, 79, 83, 84>>}
\* "/a"
Paths == {<<47, 97>>}

\* The calls: without a body (body undefined) or with a string, the empty one included.
Requests ==
    {[method |-> m, path |-> p, body |-> <<>>, hasBody |-> FALSE, streams |-> FALSE] :
        m \in Methods, p \in Paths}
    \cup {[method |-> m, path |-> p, body |-> b, hasBody |-> TRUE, streams |-> FALSE] :
        m \in Methods, p \in Paths, b \in SeqsUpTo(BodyUnits, MaxBodyUnits)}

\* The texts of the request's lines, as character codes.
\* " HTTP/1.1"
HttpVersion ==
    <<32, 72, 84, 84, 80, 47, 49, 46, 49>>
\* "Host: localhost"
HostLine ==
    <<72, 111, 115, 116, 58, 32, 108, 111, 99, 97, 108, 104, 111, 115, 116>>
\* "User-Agent: Nandu/0.1"
UserAgentLine ==
    <<85, 115, 101, 114, 45, 65, 103, 101, 110, 116, 58, 32, 78, 97, 110, 100, 117, 47,
      48, 46, 49>>
\* "Accept: application/json"
AcceptLine ==
    <<65, 99, 99, 101, 112, 116, 58, 32, 97, 112, 112, 108, 105, 99, 97, 116, 105, 111,
      110, 47, 106, 115, 111, 110>>
\* "Content-Type: application/json"
ContentTypeLine ==
    <<67, 111, 110, 116, 101, 110, 116, 45, 84, 121, 112, 101, 58, 32, 97, 112, 112,
      108, 105, 99, 97, 116, 105, 111, 110, 47, 106, 115, 111, 110>>
\* "Content-Length: "
ContentLengthName ==
    <<67, 111, 110, 116, 101, 110, 116, 45, 76, 101, 110, 103, 116, 104, 58, 32>>
\* "Connection: close"
ConnectionCloseLine ==
    <<67, 111, 110, 110, 101, 99, 116, 105, 111, 110, 58, 32, 99, 108, 111, 115, 101>>

\* `body ? ... : ...`: undefined and the empty string are falsy.
Truthy(r) == r.hasBody /\ r.body # <<>>

\* contentLength that counts the code units of the string.
contentLengthOfString(r) == IF Truthy(r) THEN Len(r.body) ELSE 0

\* const contentLength = body ? new TextEncoder().encode(body).length : 0
contentLength(r) == IF Truthy(r) THEN Len(Utf8Encode(r.body)) ELSE 0

\* The lines of the request after filter(line => line !== null); `close` is
\* whether "Connection: close" is among them (requestBinary) or not (requestStream).
requestLines(r, close) ==
    <<r.method \o <<32>> \o r.path \o HttpVersion,
      HostLine,
      UserAgentLine,
      AcceptLine>>
    \o (IF contentLength(r) > 0
        THEN <<ContentTypeLine,
               ContentLengthName \o ToDec(contentLength(r))>>
        ELSE <<>>)
    \o (IF close THEN <<ConnectionCloseLine>> ELSE <<>>)
    \o <<<<>>, IF Truthy(r) THEN r.body ELSE <<>>>>

\* requestBytes: the lines joined with CR LF and encoded.
requestBytes(r, close) == Utf8Encode(Join(requestLines(r, close), CRLF))

\* requestBinary up to the end of write_bytes_async.
writeRequest ==
    /\ pc = "idle"
    /\ pc' = "response"
    /\ conn' = "open"
    /\ outcome' = "pending"
    /\ sent' = requestBytes(req, TRUE)
    /\ UNCHANGED <<daemonVars, sideVars, rpos, chunks, streamVars, lastError, result, req,
                   lineBuffer, lineCalls, output>>

\* requestStream up to the end of write_bytes_async.
writeStreamRequest ==
    /\ pc = "idle"
    /\ pc' = "headers"
    /\ conn' = "open"
    /\ outcome' = "pending"
    /\ req' = [req EXCEPT !.streams = TRUE]
    /\ sent' = requestBytes(req, FALSE)
    /\ UNCHANGED <<daemonVars, sideVars, rpos, chunks, streamVars, lastError, result, lineBuffer,
                   lineCalls, output>>

InitRequest ==
    /\ InitConnection({Response("plain", <<<<>>>>, <<>>)})
    /\ InitSide
    /\ req \in Requests
    /\ sent = <<>>
    /\ lineBuffer = <<>>
    /\ lineCalls = <<>>
    /\ output = <<>>

NextRequest == writeRequest \/ writeStreamRequest

SpecRequest == InitRequest /\ [][NextRequest]_vars

\* ------------------------------------------------------------ container logs

\* (buffer[offset + 4] << 24) | (buffer[offset + 5] << 16) |
\* (buffer[offset + 6] << 8) | buffer[offset + 7], a signed 32-bit integer:
\* the top bit of the first byte is the sign. An index outside the buffer reads
\* undefined, which the shift takes as 0.
ShiftOperand(buffer, i) == IF i >= 0 /\ i < Len(buffer) THEN At(buffer, i) ELSE 0

frameSize(buffer, offset) ==
    LET top == ShiftOperand(buffer, offset + 4)
    IN  (IF top >= 128 THEN top - 256 ELSE top) * 16777216
            + ShiftOperand(buffer, offset + 5) * 65536
            + ShiftOperand(buffer, offset + 6) * 256 + ShiftOperand(buffer, offset + 7)

\* The onLine calls for the fragments `lines`: `if (line) onLine(line, 'stdout')`.
RECURSIVE stdoutLines(_)
stdoutLines(lines) ==
    IF lines = <<>> THEN <<>>
    ELSE (IF Head(lines) # <<>> THEN <<[line |-> Head(lines), stream |-> "stdout"]>> ELSE <<>>)
             \o stdoutLines(Tail(lines))

\* The raw-text branch on the bytes `bytes`: the text is split on newlines, the
\* last fragment is kept and encoded again, the others are the lines.
rawTextLines(bytes) ==
    LET text == Utf8Decode(bytes)
        lines == Split(text, 10)
    IN  [lines |-> stdoutLines(SubSeq(lines, 1, Len(lines) - 1)),
         remaining |-> Utf8Encode(lines[Len(lines)])]

\* streamingFrameStep that moves past the header before it looks for the payload.
streamingFrameStepPastHeader(buffer, offset) ==
    LET size == frameSize(buffer, offset)
        line == TrimEnd(Utf8Decode(SubArray(buffer, offset + 8, offset + 8 + size)))
        stop == [kind |-> "break", offset |-> offset, lines |-> <<>>, remaining |-> <<>>]
    IN  IF offset + 8 > Len(buffer) THEN stop
        ELSE IF offset + 8 + size > Len(buffer) THEN [stop EXCEPT !.offset = offset + 8]
        ELSE [kind |-> "next", offset |-> offset + 8 + size,
              lines |-> IF line # <<>>
                        THEN <<[line |-> line,
                                stream |-> IF At(buffer, offset) = 2 THEN "stderr" ELSE "stdout"]>>
                        ELSE <<>>,
              remaining |-> <<>>]

\* One iteration of the while loop of parseStreamingLogFrames at `offset`
\* (offset < buffer.length): kind "break", "return" (the raw-text fallback,
\* which gives the lines and the remaining bytes itself) or "next" (continue
\* at `offset` after the onLine calls `lines`).
streamingFrameStep(buffer, offset) ==
    LET streamType == At(buffer, offset)
        size == frameSize(buffer, offset)
        fallback == rawTextLines(SubArrayFrom(buffer, offset))
        payload == SubArray(buffer, offset + 8, offset + 8 + size)
        line == TrimEnd(Utf8Decode(payload))
        stream == IF streamType = 2 THEN "stderr" ELSE "stdout"
        stop == [kind |-> "break", offset |-> offset, lines |-> <<>>, remaining |-> <<>>]
    IN  IF offset + 8 > Len(buffer) THEN stop
        ELSE IF size > 1000000
        THEN [kind |-> "return", offset |-> offset, lines |-> fallback.lines,
              remaining |-> fallback.remaining]
        ELSE IF offset + 8 + size > Len(buffer) THEN stop
        ELSE [kind |-> "next", offset |-> offset + 8 + size,
              lines |-> IF line # <<>> THEN <<[line |-> line, stream |-> stream]>> ELSE <<>>,
              remaining |-> <<>>]

RECURSIVE streamingFrameLoop(_, _, _)
streamingFrameLoop(buffer, offset, lines) ==
    IF ~(offset < Len(buffer))
    THEN [lines |-> lines, remaining |-> SubArrayFrom(buffer, offset)]
    ELSE LET st == streamingFrameStep(buffer, offset)
         IN  CASE st.kind = "break" ->
                    [lines |-> lines, remaining |-> SubArrayFrom(buffer, st.offset)]
               [] st.kind = "return" ->
                    [lines |-> lines \o st.lines, remaining |-> st.remaining]
               [] OTHER -> streamingFrameLoop(buffer, st.offset, lines \o st.lines)

\* const isMultiplexed = firstByte === 0 || firstByte === 1 || firstByte === 2
\* (buffer[0] of the empty buffer is undefined, and equal to none of them).
isMultiplexed(buffer) == Len(buffer) > 0 /\ At(buffer, 0) \in {0, 1, 2}

\* parseStreamingLogFrames: the onLine calls in order and the argument of the
\* one onRemaining call.
parseStreamingLogFrames(buffer) ==
    IF ~isMultiplexed(buffer) THEN rawTextLines(buffer)
    ELSE streamingFrameLoop(buffer, 0, <<>>)

\* The offset at which the while loop of parseStreamingLogFrames, entered at
\* `offset`, takes the raw-text fallback of an oversized length, -1 when the
\* loop ends without it.
RECURSIVE fallbackOffset(_, _)
fallbackOffset(buffer, offset) ==
    IF ~(offset < Len(buffer)) THEN -1
    ELSE LET st == streamingFrameStep(buffer, offset)
         IN  CASE st.kind = "break" -> -1
               [] st.kind = "return" -> offset
               [] OTHER -> fallbackOffset(buffer, st.offset)

\* The path one call of parseStreamingLogFrames takes on `buffer`: whether its
\* isMultiplexed is true, and where its frame loop fell back to raw text.
decodeMode(buffer) ==
    [multiplexed |-> isMultiplexed(buffer),
     fallback |-> IF isMultiplexed(buffer) THEN fallbackOffset(buffer, 0) ELSE -1]

\* The modes of the calls so far with the mode `m` of one more call; a mode
\* that repeats the one before it is noted once.
noteMode(ms, m) == IF ms # <<>> /\ ms[Len(ms)] = m THEN ms ELSE Append(ms, m)

\* logFrameStep that appends nothing for a frame whose payload is cut short.
logFrameStepDropsPartial(buffer, offset) ==
    LET size == frameSize(buffer, offset)
        stop == [kind |-> "break", offset |-> offset, text |-> <<>>]
    IN  IF offset + 8 > Len(buffer) THEN stop
        ELSE IF offset + 8 + size > Len(buffer) THEN stop
        ELSE [kind |-> "next", offset |-> offset + 8 + size,
              text |-> Utf8Decode(SubArray(buffer, offset + 8, offset + 8 + size))]

\* One iteration of the while loop of parseLogFrames at `offset`
\* (offset < buffer.length): kind "break" or "next" (continue at `offset`),
\* and the text the iteration appended to the output.
logFrameStep(buffer, offset) ==
    LET size == frameSize(buffer, offset)
        past == offset + 8
    IN  IF offset + 8 > Len(buffer) THEN [kind |-> "break", offset |-> offset, text |-> <<>>]
        ELSE IF past + size > Len(buffer)
        THEN [kind |-> "break", offset |-> past, text |-> Utf8Decode(SubArrayFrom(buffer, past))]
        ELSE [kind |-> "next", offset |-> past + size,
              text |-> Utf8Decode(SubArray(buffer, past, past + size))]

RECURSIVE logFrameLoop(_, _, _)
logFrameLoop(buffer, offset, out) ==
    IF ~(offset < Len(buffer)) THEN out
    ELSE LET st == logFrameStep(buffer, offset)
         IN  IF st.kind = "break" THEN out \o st.text
             ELSE logFrameLoop(buffer, st.offset, out \o st.text)

\* parseLogFrames: the text of a whole log response.
parseLogFrames(buffer) == logFrameLoop(buffer, 0, <<>>)

\* streamContainerLogs: the stream is set up with an empty buffer and the
\* handle is returned.
streamContainerLogs ==
    /\ pc = "idle"
    /\ resp.kind = "logs"
    /\ pc' = "reading"
    /\ conn' = "open"
    /\ outcome' = "handle"
    /\ lineBuffer' = <<>>
    /\ modes' = <<>>
    /\ UNCHANGED <<daemonVars, other, typesVars, monitor, rpos, chunks, streamVars, lastError,
                   result, req, sent, lineCalls, output>>

\* onData of streamContainerLogs with the next bytes of the stream: the chunk
\* is appended to the buffer, the buffer is parsed, and what remains is kept.
logsData ==
    /\ pc = "reading"
    /\ resp.kind = "logs"
    /\ \E p \in (rpos + 1)..Len(wire) :
        LET parsed == parseStreamingLogFrames(lineBuffer \o SubSeq(wire, rpos + 1, p))
        IN  /\ rpos' = p
            /\ lineCalls' = lineCalls \o parsed.lines
            /\ lineBuffer' = parsed.remaining
            /\ modes' = noteMode(modes, decodeMode(lineBuffer \o SubSeq(wire, rpos + 1, p)))
    /\ UNCHANGED <<daemonVars, other, typesVars, monitor, pc, conn, chunks, streamVars, outcome,
                   lastError, result, req, sent, output>>

\* getContainerLogs on a response whose body is the first p bytes of the
\* stream: the body is parsed in one go and the text returned.
getContainerLogs ==
    /\ pc = "idle"
    /\ resp.kind = "logs"
    /\ \E p \in 0..Len(wire) :
        /\ rpos' = p
        /\ output' = parseLogFrames(SubSeq(wire, 1, p))
    /\ pc' = "done"
    /\ conn' = "closed"
    /\ outcome' = "resolved"
    /\ UNCHANGED <<daemonVars, sideVars, chunks, streamVars, lastError, result, req, sent,
                   lineBuffer, lineCalls>>

InitLogs ==
    /\ InitConnection(LogStreams)
    /\ InitSide
    /\ req = NoRequest
    /\ sent = <<>>
    /\ lineBuffer = <<>>
    /\ lineCalls = <<>>
    /\ output = <<>>

NextLogs == streamContainerLogs \/ logsData \/ getContainerLogs

SpecLogs == InitLogs /\ [][NextLogs]_vars

\* parseStreamingLogFrames is called on the buffer: it is multiplexed, and the
\* while loop is entered at offset 0.
streamingFramesCall ==
    /\ pc = "idle"
    /\ resp.kind = "frames"
    /\ resp.streaming
    /\ isMultiplexed(wire)
    /\ pc' = "loop"
    /\ rpos' = 0
    /\ lineCalls' = <<>>
    /\ UNCHANGED <<daemonVars, sideVars, conn, chunks, streamVars, outcome, lastError, result,
                   req, sent, lineBuffer, output>>

\* One pass of the while loop of parseStreamingLogFrames at offset rpos: the
\* loop is left when the offset is not below the buffer's length, on break
\* and on the fallback's return, and onRemaining gets what is left.
streamingFrameIteration ==
    /\ pc = "loop"
    /\ resp.streaming
    /\ IF ~(rpos < Len(wire))
       THEN /\ pc' = "done"
            /\ lineBuffer' = SubArrayFrom(wire, rpos)
            /\ UNCHANGED <<rpos, lineCalls>>
       ELSE /\ pc' = IF streamingFrameStep(wire, rpos).kind = "next" THEN "loop" ELSE "done"
            /\ rpos' = streamingFrameStep(wire, rpos).offset
            /\ lineCalls' = lineCalls \o streamingFrameStep(wire, rpos).lines
            /\ lineBuffer' = CASE streamingFrameStep(wire, rpos).kind = "next" -> lineBuffer
                               [] streamingFrameStep(wire, rpos).kind = "return" ->
                                      streamingFrameStep(wire, rpos).remaining
                               [] OTHER -> SubArrayFrom(wire, rpos)
    /\ UNCHANGED <<daemonVars, sideVars, conn, chunks, streamVars, outcome, lastError, result,
                   req, sent, output>>

\* parseLogFrames is called on the buffer: the while loop is entered at
\* offset 0 with an empty output.
logFramesCall ==
    /\ pc = "idle"
    /\ resp.kind = "frames"
    /\ ~resp.streaming
    /\ pc' = "loop"
    /\ rpos' = 0
    /\ output' = <<>>
    /\ UNCHANGED <<daemonVars, sideVars, conn, chunks, streamVars, outcome, lastError, result,
                   req, sent, lineBuffer, lineCalls>>

\* One pass of the while loop of parseLogFrames at offset rpos.
logFrameIteration ==
    /\ pc = "loop"
    /\ ~resp.streaming
    /\ IF ~(rpos < Len(wire))
       THEN /\ pc' = "done"
            /\ UNCHANGED <<rpos, output>>
       ELSE /\ pc' = IF logFrameStep(wire, rpos).kind = "next" THEN "loop" ELSE "done"
            /\ rpos' = logFrameStep(wire, rpos).offset
            /\ output' = output \o logFrameStep(wire, rpos).text
    /\ UNCHANGED <<daemonVars, sideVars, conn, chunks, streamVars, outcome, lastError, result,
                   req, sent, lineBuffer, lineCalls>>

\* The two frame decoders, one pass of the loop at a time.
InitFrames ==
    /\ InitConnection(FrameBuffers)
    /\ InitSide
    /\ req = NoRequest
    /\ sent = <<>>
    /\ lineBuffer = <<>>
    /\ lineCalls = <<>>
    /\ output = <<>>

NextFrames == streamingFramesCall \/ streamingFrameIteration \/ logFramesCall \/ logFrameIteration

SpecFrames == InitFrames /\ [][NextFrames]_vars

\* The same calls on a TTY whose text has control characters in it.
InitLogsControl ==
    /\ InitConnection(ControlStreams)
    /\ InitSide
    /\ req = NoRequest
    /\ sent = <<>>
    /\ lineBuffer = <<>>
    /\ lineCalls = <<>>
    /\ output = <<>>

SpecLogsControl == InitLogsControl /\ [][NextLogs]_vars

\* ------------------------------------------------------------------ events

\* JSON white space: space, tab, line feed, carriage return.
IsJsonSpace(c) == c \in {32, 9, 10, 13}

\* JSON.parse on a text made of the characters "{", "}", "1", the double
\* quote, white space and characters from U+0080 on: such a text is JSON when,
\* without the white space around it, it is a number of digits 1, an object
\* with nothing but white space between its braces, or a string (a double
\* quote, characters that are no double quote, backslash or control character,
\* and a double quote); every other text throws.  `value` is the value parsed.
JsonParse(text) ==
    LET from == {i \in 1..Len(text) : ~IsJsonSpace(text[i])}
        t == IF from = {} THEN <<>>
             ELSE SubSeq(text, Least(from), CHOOSE x \in from : \A y \in from : x >= y)
        thrown == [ok |-> FALSE, value |-> [type |-> "none", number |-> 0, text |-> <<>>]]
    IN  IF t = <<>> THEN thrown
        ELSE IF \A i \in 1..Len(t) : t[i] = 49
        THEN [ok |-> TRUE,
              value |-> [type |-> "number", number |-> ParseInt(t, 10).val, text |-> <<>>]]
        ELSE IF /\ Len(t) >= 2
                /\ t[1] = 123
                /\ t[Len(t)] = 125
                /\ \A i \in 2..(Len(t) - 1) : IsJsonSpace(t[i])
        THEN [ok |-> TRUE, value |-> [type |-> "object", number |-> 0, text |-> <<>>]]
        ELSE IF /\ Len(t) >= 2
                /\ t[1] = 34
                /\ t[Len(t)] = 34
                /\ \A i \in 2..(Len(t) - 1) : t[i] \notin {34, 92} /\ t[i] >= 32
        THEN [ok |-> TRUE,
              value |-> [type |-> "string", number |-> 0, text |-> SubSeq(t, 2, Len(t) - 1)]]
        ELSE thrown

\* The for loop of streamEvents' onData over `lines`: the onEvent calls made,
\* and whether an exception left the loop; `caught` is whether JSON.parse sits
\* in a try block whose catch block skips the line.
RECURSIVE eventLoop(_, _)
eventLoop(lines, caught) ==
    IF lines = <<>> THEN [calls |-> <<>>, threw |-> FALSE]
    ELSE LET line == Head(lines)
             parsed == JsonParse(line)
             rest == eventLoop(Tail(lines), caught)
         IN  IF Trim(line) = <<>> THEN rest
             ELSE IF parsed.ok THEN [rest EXCEPT !.calls = <<parsed.value>> \o @]
             ELSE IF caught THEN rest
             ELSE [calls |-> <<>>, threw |-> TRUE]

\* onData of streamEvents without the try block around JSON.parse.
eventsOnDataUncaught(buffer, chunk) ==
    LET lines == Split(buffer \o Utf8Decode(chunk), 10)
        loop == eventLoop(SubSeq(lines, 1, Len(lines) - 1), FALSE)
    IN  [calls |-> loop.calls, buffer |-> lines[Len(lines)], threw |-> loop.threw]

\* onData of streamEvents with the text buffer `buffer` and the bytes `chunk`:
\* the onEvent calls, the new buffer, and whether it threw.
eventsOnData(buffer, chunk) ==
    LET lines == Split(buffer \o Utf8Decode(chunk), 10)
        loop == eventLoop(SubSeq(lines, 1, Len(lines) - 1), TRUE)
    IN  [calls |-> loop.calls, buffer |-> lines[Len(lines)], threw |-> loop.threw]

\* streamEvents: the stream is set up with an empty text buffer and the handle
\* is returned.
streamEvents ==
    /\ pc = "idle"
    /\ resp.kind = "events"
    /\ pc' = "reading"
    /\ conn' = "open"
    /\ outcome' = "handle"
    /\ lineBuffer' = <<>>
    /\ UNCHANGED <<daemonVars, sideVars, rpos, chunks, streamVars, lastError, result, req, sent,
                   lineCalls, output>>

\* One read of readStreamLoop with the next bytes of the stream, handed to
\* onData of streamEvents; an exception out of onData is caught by the loop,
\* which calls onError and onClose and ends.
eventsData ==
    /\ pc = "reading"
    /\ resp.kind = "events"
    /\ \E p \in (rpos + 1)..Len(wire) :
        LET d == eventsOnData(lineBuffer, SubSeq(wire, rpos + 1, p))
        IN  /\ rpos' = p
            /\ lineCalls' = lineCalls \o d.calls
            /\ lineBuffer' = d.buffer
            /\ IF d.threw
               THEN /\ events' = loopFinally(loopCatch(events, cancellable), cancellable)
                    /\ loopEnd' = "error"
                    /\ pc' = "ended"
                    /\ lastError' = Error("SyntaxError")
               ELSE UNCHANGED <<events, loopEnd, pc, lastError>>
    /\ UNCHANGED <<daemonVars, sideVars, conn, chunks, isCancelled, cancellable, isChunked,
                   chunkBuffer, delivered, cancelCalls, outcome, result, req, sent, output>>

InitEvents ==
    /\ InitConnection(EventStreams)
    /\ InitSide
    /\ req = NoRequest
    /\ sent = <<>>
    /\ lineBuffer = <<>>
    /\ lineCalls = <<>>
    /\ output = <<>>

NextEvents == streamEvents \/ eventsData

SpecEvents == InitEvents /\ [][NextEvents]_vars

\* The same calls on event streams with text outside ASCII.
InitEventsText ==
    /\ InitConnection(TextEventStreams)
    /\ InitSide
    /\ req = NoRequest
    /\ sent = <<>>
    /\ lineBuffer = <<>>
    /\ lineCalls = <<>>
    /\ output = <<>>

SpecEventsText == InitEventsText /\ [][NextEvents]_vars

\* ------------------------------------------------------- two streams at once

\* The answer to the first call while a second stream is followed: the body
\* "a", not chunked.
TwoResponses == {Response("plain", <<<<97>>>>, <<>>)}

\* What the daemon sends on the second stream's connection after its headers:
\* "1" CR LF "b" CR LF "1", a chunk and the start of another.
OtherWire == <<49, 13, 10, 98, 13, 10, 49>>

\* Where a read of the second stream may end: it brings all that was sent.
OtherReadEnds == {Len(OtherWire)}

\* The second stream as requestStream returned it: headers read, the handle
\* given to the caller, the first read of readStreamLoop in flight.
ActiveStream == [NoStream EXCEPT !.pc = "reading", !.conn = "open", !.isChunked = TRUE]

\* The locals of the first requestStream call, as one record.
firstStream ==
    [isCancelled |-> isCancelled, cancellable |-> cancellable, conn |-> conn,
     chunkBuffer |-> chunkBuffer, events |-> events, delivered |-> delivered]

\* The thread is inside read_bytes(CHUNK_SIZE, null) of readStreamHeaders or of
\* readResponse: a synchronous read, which returns when the daemon has sent
\* something or closed the connection.  Until then no callback of the main loop
\* runs: no read of another stream completes and no caller gets to cancel().
syncRead == pc \in {"headers", "response"}

\* cancel() with one cancellable shared by the calls.
cancelOfSharedToken(own, peer) ==
    [own |-> handleCancel(own), peer |-> [peer EXCEPT !.cancellable = TRUE]]

\* cancel() on the handle of the stream `own` while the stream `peer` is active:
\* isCancelled, cancellable and connection are locals of own's requestStream call.
cancelOf(own, peer) == [own |-> handleCancel(own), peer |-> peer]

\* The second stream after onData was given the bytes up to p, with pd what
\* processData made of them.
otherDelivered(o, p, pd) ==
    [o EXCEPT !.rpos = p, !.chunkBuffer = pd.rest, !.delivered = @ \o pd.emitted,
              !.events = @ \o DataEvents(Len(pd.emitted))]

\* A read of the second stream resolves with data.
otherData ==
    /\ ~syncRead
    /\ other.pc = "reading"
    /\ ~other.cancellable
    /\ \E p \in {q \in OtherReadEnds : q > other.rpos} :
        other' = otherDelivered(other, p,
                                processData(other.isChunked, other.chunkBuffer,
                                            SubSeq(OtherWire, other.rpos + 1, p)))
    /\ UNCHANGED <<daemonVars, typesVars, extraVars, clientVars, rpos, pc, conn, chunks, streamVars,
                   outcome, lastError, result>>

\* A read of the second stream resolves with zero bytes.
otherEOF ==
    /\ ~syncRead
    /\ other.pc = "reading"
    /\ ~other.cancellable
    /\ other' = [other EXCEPT !.pc = "ended", !.loopEnd = "eof",
                              !.events = loopFinally(@, other.cancellable)]
    /\ UNCHANGED <<daemonVars, typesVars, extraVars, clientVars, rpos, pc, conn, chunks, streamVars,
                   outcome, lastError, result>>

\* A read of the second stream rejects: with a read error, or because its
\* cancellable was cancelled.
otherError ==
    /\ ~syncRead
    /\ other.pc = "reading"
    /\ other' = [other EXCEPT !.pc = "ended",
                              !.loopEnd = IF other.cancellable THEN "aborted" ELSE "error",
                              !.events = loopFinally(loopCatch(@, other.cancellable),
                                                     other.cancellable)]
    /\ UNCHANGED <<daemonVars, typesVars, extraVars, clientVars, rpos, pc, conn, chunks, streamVars,
                   outcome, lastError, result>>

\* The caller calls cancel() on the second stream's handle.
otherCancel ==
    /\ ~syncRead
    /\ other.pc \in {"reading", "ended"}
    /\ other.cancelCalls < MaxCancels
    /\ LET after == cancelOf([other EXCEPT !.cancelCalls = @ + 1], firstStream)
       IN  /\ other' = after.own
           /\ isCancelled' = after.peer.isCancelled
           /\ cancellable' = after.peer.cancellable
           /\ conn' = after.peer.conn
           /\ chunkBuffer' = after.peer.chunkBuffer
           /\ events' = after.peer.events
           /\ delivered' = after.peer.delivered
    /\ UNCHANGED <<daemonVars, typesVars, extraVars, clientVars, rpos, pc, chunks, isChunked, cancelCalls,
                   loopEnd, outcome, lastError, result>>

InitTwo ==
    /\ InitConnection(TwoResponses)
    /\ req = NoRequest
    /\ sent = <<>>
    /\ lineBuffer = <<>>
    /\ lineCalls = <<>>
    /\ output = <<>>
    /\ other = ActiveStream
    /\ InitTypes
    /\ InitExtra

NextTwo ==
    \/ Next
    \/ otherData
    \/ otherEOF
    \/ otherError
    \/ otherCancel

SpecTwo == InitTwo /\ [][NextTwo]_vars

\* ----------------------------------------------------- data normalisation

\* "<none>:<none>", "<none>" and "latest".
NoneNone == <<60, 110, 111, 110, 101, 62, 58, 60, 110, 111, 110, 101, 62>>
NoneText == <<60, 110, 111, 110, 101, 62>>
Latest == <<108, 97, 116, 101, 115, 116>>

Colon == 58
Slash == 47

\* The repo-tag strings of images: every string of up to MaxTagLen characters
\* out of ":", "/" and "a", and "<none>:<none>".
RepoTags == SeqsUpTo({Colon, Slash, 97}, MaxTagLen) \cup {NoneNone}

\* parseRepoTag splitting at the first colon.
parseRepoTagFirstColon(str) ==
    LET firstColon == IndexOf(str, <<Colon>>)
        lastSlash == LastIndexOf(str, <<Slash>>)
    IN  IF str = NoneNone THEN <<NoneText, NoneText>>
        ELSE IF firstColon <= lastSlash THEN <<str, Latest>>
        ELSE <<SubArray(str, 0, firstColon), SubArrayFrom(str, firstColon + 1)>>

\* parseRepoTag(repoTag): the [name, tag] pair.
parseRepoTag(str) ==
    LET lastColon == LastIndexOf(str, <<Colon>>)
        lastSlash == LastIndexOf(str, <<Slash>>)
    IN  IF str = NoneNone THEN <<NoneText, NoneText>>
        ELSE IF lastColon <= lastSlash THEN <<str, Latest>>
        ELSE <<SubArray(str, 0, lastColon), SubArrayFrom(str, lastColon + 1)>>

\* processImage: the image's first repo tag is split into name and tag.
processImage ==
    /\ pc = "idle"
    /\ pc' = "done"
    /\ nameTag' = parseRepoTag(repoTag)
    /\ UNCHANGED <<daemonVars, other, extraVars, clientVars, rpos, conn, chunks, streamVars, outcome,
                   lastError, result, repoTag, labels, container>>

InitRepoTag ==
    /\ InitConnection({Response("plain", <<<<>>>>, <<>>)})
    /\ req = NoRequest
    /\ sent = <<>>
    /\ lineBuffer = <<>>
    /\ lineCalls = <<>>
    /\ output = <<>>
    /\ other = NoStream
    /\ InitExtra
    /\ repoTag \in RepoTags
    /\ nameTag = <<>>
    /\ labels = <<>>
    /\ container = NoContainer

NextRepoTag == processImage

SpecRepoTag == InitRepoTag /\ [][NextRepoTag]_vars

\* A label's value: a string, or undefined when the map has no such key.
Undefined == [defined |-> FALSE, value |-> <<>>]
Defined(str) == [defined |-> TRUE, value |-> str]

\* `!value` is false: the value is neither undefined nor the empty string.
IsTruthy(v) == v.defined /\ v.value # <<>>

\* The values the daemon may give to com.docker.compose.container-number:
\* "", "1", "12", "1x", "x", " 7" and "-3".
NumberLabels ==
    {<<>>, <<49>>, <<49, 50>>, <<49, 120>>, <<120>>, <<32, 55>>, <<45, 51>>}

\* The label maps of containers, by the keys com.docker.compose.project,
\* .service, .project.working_dir, .project.config_files and .container-number:
\* each key is missing or has a value, which may be the empty string.
LabelMaps ==
    [project : {Undefined, Defined(<<>>), Defined(<<112>>)},
     service : {Undefined, Defined(<<>>), Defined(<<115>>)},
     workingDir : {Undefined, Defined(<<47, 119>>)},
     configFiles : {Undefined, Defined(<<102>>)},
     containerNumber : {Undefined} \cup {Defined(n) : n \in NumberLabels}]

\* What extractComposeInfo returns for a container outside compose.
Null ==
    [null |-> TRUE, project |-> Undefined, service |-> Undefined, workingDir |-> Undefined,
     configFiles |-> Undefined, containerNumber |-> [defined |-> FALSE, nan |-> FALSE, val |-> 0]]

\* extractComposeInfo returning null only when both labels are missing.
extractComposeInfoEitherLabel(l) ==
    IF ~IsTruthy(l.project) /\ ~IsTruthy(l.service) THEN Null
    ELSE [null |-> FALSE, project |-> l.project, service |-> l.service,
          workingDir |-> l.workingDir, configFiles |-> l.configFiles,
          containerNumber |->
              IF IsTruthy(l.containerNumber)
              THEN [defined |-> TRUE, nan |-> ParseInt(l.containerNumber.value, 10).nan,
                    val |-> ParseInt(l.containerNumber.value, 10).val]
              ELSE Null.containerNumber]

\* extractComposeInfo(labels): null, or the compose record.
extractComposeInfo(l) ==
    IF ~IsTruthy(l.project) \/ ~IsTruthy(l.service) THEN Null
    ELSE [null |-> FALSE, project |-> l.project, service |-> l.service,
          workingDir |-> l.workingDir, configFiles |-> l.configFiles,
          containerNumber |->
              IF IsTruthy(l.containerNumber)
              THEN [defined |-> TRUE, nan |-> ParseInt(l.containerNumber.value, 10).nan,
                    val |-> ParseInt(l.containerNumber.value, 10).val]
              ELSE Null.containerNumber]

\* processContainer: isCompose and composeInfo of the ContainerData it returns.
processContainer ==
    /\ pc = "idle"
    /\ pc' = "done"
    /\ LET composeInfo == extractComposeInfo(labels)
       IN  container' = [isCompose |-> ~composeInfo.null, hasComposeInfo |-> ~composeInfo.null,
                         composeInfo |-> composeInfo]
    /\ UNCHANGED <<daemonVars, other, extraVars, clientVars, rpos, conn, chunks, streamVars, outcome,
                   lastError, result, repoTag, nameTag, labels>>

InitCompose ==
    /\ InitConnection({Response("plain", <<<<>>>>, <<>>)})
    /\ req = NoRequest
    /\ sent = <<>>
    /\ lineBuffer = <<>>
    /\ lineCalls = <<>>
    /\ output = <<>>
    /\ other = NoStream
    /\ InitExtra
    /\ repoTag = <<>>
    /\ nameTag = <<>>
    /\ labels \in LabelMaps
    /\ container = NoContainer

NextCompose == processContainer

SpecCompose == InitCompose /\ [][NextCompose]_vars

\* -------------------------------------------------------------- the monitor

\* State.Status as the daemon reports it, and "stopped", which the monitor also
\* takes for a stable state.
Statuses ==
    {"created", "restarting", "removing", "running", "exited", "stopped", "dead", "paused"}

\* isRunning || isStopped, and neither restarting nor removing.
IsStable(currentStatus) ==
    /\ currentStatus = "running" \/ currentStatus \in {"exited", "stopped", "dead", "paused"}
    /\ currentStatus # "restarting"
    /\ currentStatus # "removing"

\* resolve(value) or reject(error) on the promise of m: the first one settles
\* it, a later one changes nothing.
settle(m, how, value) ==
    IF m.promise = "pending" THEN [m EXCEPT !.promise = how, !.value = value] ELSE m

\* GLib.Source.remove(intervalId) on m.
removeSource(m) == [m EXCEPT !.timer = "removed", !.removes = @ + 1]

\* monitorUntilStartedOrExited is called: the promise is created and the
\* 500 ms timer added.
monitorUntilStartedOrExited ==
    /\ monitor.promise = "none"
    /\ monitor' = [monitor EXCEPT !.promise = "pending", !.timer = "active"]
    /\ UNCHANGED <<daemonVars, other, typesVars, modes, clientVars, rpos, pc, conn, chunks,
                   streamVars, outcome, lastError, result>>

\* The timer fires: the callback starts an inspectContainer call, does not
\* wait for it and returns SOURCE_CONTINUE.
monitorTick ==
    /\ monitor.timer = "active"
    /\ monitor.ticks < MaxTicks
    /\ monitor' = [monitor EXCEPT !.inflight = @ + 1, !.ticks = @ + 1]
    /\ UNCHANGED <<daemonVars, other, typesVars, modes, clientVars, rpos, pc, conn, chunks,
                   streamVars, outcome, lastError, result>>

\* An inspectContainer call in flight resolves with the container's status:
\* onStatusChange is called, and on a stable status the timer is removed and
\* the promise resolved.
inspectResolves ==
    /\ monitor.inflight > 0
    /\ \E currentStatus \in Statuses :
        monitor' =
            IF IsStable(currentStatus)
            THEN settle(removeSource([monitor EXCEPT
                                         !.inflight = @ - 1,
                                         !.statusCalls = Append(@, currentStatus)]),
                        "resolved", currentStatus)
            ELSE [monitor EXCEPT !.inflight = @ - 1, !.statusCalls = Append(@, currentStatus)]
    /\ UNCHANGED <<daemonVars, other, typesVars, modes, clientVars, rpos, pc, conn, chunks,
                   streamVars, outcome, lastError, result>>

\* An inspectContainer call in flight rejects: the catch block removes the
\* timer and rejects the promise.
inspectRejects ==
    /\ monitor.inflight > 0
    /\ monitor' = settle(removeSource([monitor EXCEPT !.inflight = @ - 1]), "rejected", "")
    /\ UNCHANGED <<daemonVars, other, typesVars, modes, clientVars, rpos, pc, conn, chunks,
                   streamVars, outcome, lastError, result>>

\* The client with no request made and no monitor started.
InitMonitor == InitWith({[kind |-> "inspect"]})

NextMonitor == monitorUntilStartedOrExited \/ monitorTick \/ inspectResolves \/ inspectRejects

SpecMonitor == InitMonitor /\ [][NextMonitor]_vars

\* ------------------------------------------------- the client's error wrapping

\* The messages the catch blocks of the client's one-shot operations put in
\* front of the cause: new Error(`Failed to ...: ${String(error)}`).
OperationMessages ==
    {"Failed to list containers", "Failed to inspect container", "Failed to start container",
     "Failed to stop container", "Failed to restart container", "Failed to remove container",
     "Failed to get logs for container", "Failed to get system data usage",
     "Failed to list images", "Failed to remove image", "Failed to inspect image"}

\* What the caller of streamContainerLogs or streamEvents receives when the
\* transport fails with e: both return requestStream's promise and hand
\* callbacks.onError to it, with no catch block and no wrapper in between.
streamCallerError(e) == e

\* ------------------------------------------------------------------- claims

Count(ev, tag) == Cardinality({i \in 1..Len(ev) : ev[i] = tag})

\* i < j with ev[i] = a and ev[j] = b.
Before(ev, a, b) == \E i, j \in 1..Len(ev) : i < j /\ ev[i] = a /\ ev[j] = b

IsPrefix(p, q) == Len(p) <= Len(q) /\ SubSeq(q, 1, Len(p)) = p

\* The stream was live (no onClose yet) when cancel() was first called.
LiveWhenCancelled ==
    /\ cancelCalls >= 1
    /\ \A i \in 1..Len(events) :
          events[i] = "close" => \E j \in 1..(i - 1) : events[j] = "cancel"

\* C1: on a stream that is live when cancel() is first called, any number of
\* cancel() calls leaves exactly one onClose in total, the stream marked
\* cancelled, the token cancelled and the connection closed.
C1_CancelClosesOnce ==
    LiveWhenCancelled =>
        /\ Count(events, "close") = 1
        /\ isCancelled
        /\ cancellable
        /\ conn = "closed"

\* Two cancel() calls on a live stream whose read in flight was then aborted.
C1_Witness ==
    /\ LiveWhenCancelled
    /\ cancelCalls = 2
    /\ loopEnd = "aborted"
    /\ Count(events, "close") = 1

\* C2: no onError is ever invoked after a cancel() call, whether the read was
\* in flight when cancel() was called or the loop had yet to issue it.
C2_NoErrorAfterCancel == ~Before(events, "cancel", "error")

\* The read in flight was rejected because of the cancellation.
C2_Witness == loopEnd = "aborted" /\ Count(events, "error") = 0 /\ Count(events, "cancel") >= 1

\* A read of the stream failed for a reason other than cancellation.
ReadFailed == loopEnd = "error" \/ (pc = "failed" /\ lastError.msg = "read")

\* C3: on a stream with a read failure that is not a cancellation, onError is
\* invoked exactly once, before onClose, and onClose exactly once.
C3_OneErrorThenOneClose ==
    ReadFailed =>
        /\ Count(events, "error") = 1
        /\ Count(events, "close") = 1
        /\ Before(events, "error", "close")

\* C4: no onData is invoked after onClose or after a cancel() call.
C4_NoDataAfterCloseOrCancel ==
    /\ ~Before(events, "close", "data")
    /\ ~Before(events, "cancel", "data")

\* C5: the step in which an uncancelled stream gets a zero-length read ends the
\* loop with onClose and neither onData nor onError, and from then on no byte is
\* read, no onData and no onError is invoked.
C5_EofClosesQuietly ==
    [][loopEnd' = "eof" =>
          /\ pc' = "ended"
          /\ Count(events', "error") = 0
          /\ delivered' = delivered
          /\ rpos' = rpos
          /\ Count(events', "data") = Count(events, "data")
          /\ loopEnd # "eof" => events' = Append(events, "close")]_vars

\* A stream that delivered data and then ended by a zero-length read.
C5_Witness == loopEnd = "eof" /\ Len(delivered) >= 1 /\ events[Len(events)] = "close"

\* The stream's connection reached end-of-stream before CR LF CR LF was read.
PrematureClose ==
    pc = "failed" /\ lastError.msg = "Connection closed before headers received"

\* C6: end-of-stream before the header terminator makes requestStream reject
\* (no handle), with no onData, and with onError once followed by onClose once.
C6_PrematureCloseIsFatal ==
    PrematureClose =>
        /\ outcome = "rejected"
        /\ delivered = <<>>
        /\ events = <<"error", "close">>

\* End-of-stream after a part of the header block was read.
C6_Witness == PrematureClose /\ rpos >= 1 /\ rpos < Len(HeaderOf(resp.kind))

\* C7: a stream that ended by cancel() or by a zero-length read has its
\* connection closed.
C7_EndedStreamIsClosed == (isCancelled \/ loopEnd = "eof") => conn = "closed"

\* C8: once a one-shot call has resolved or rejected, the connection it opened
\* is closed.
C8_CompletedRequestIsClosed ==
    (outcome \in {"resolved", "rejected"} /\ conn # "none") => conn = "closed"

\* C9: for a chunked body of chunks c1..cn and every partition of its bytes into
\* arrivals, the onData arguments are at every moment the first chunks of
\* c1..cn, one call per chunk, and all of them once every byte has arrived.
C9_ChunkedSplitInvariance ==
    (resp.kind = "chunked" /\ pc \in {"reading", "ended"}) =>
        /\ IsPrefix(delivered, resp.payload)
        /\ rpos = Len(wire) => delivered = resp.payload

\* Every byte of a two-chunk body has arrived and both chunks were delivered.
C9_Witness ==
    /\ resp.kind = "chunked"
    /\ Len(resp.payload) = 2
    /\ pc \in {"reading", "ended"}
    /\ rpos = Len(wire)
    /\ delivered = resp.payload

\* The one-shot call read the daemon's whole response and parsed it.
ParsedWholeResponse == pc = "done" /\ rpos = Len(wire) /\ lastError.msg # "read"

\* C10: a one-shot call that read the whole chunked encoding of c1..cn, with or
\* without a trailer section after the zero-size chunk, resolves with exactly
\* concat(c1..cn).
C10_WholeBufferDecode ==
    (resp.kind = "chunked" /\ ParsedWholeResponse) =>
        /\ outcome = "resolved"
        /\ result = combineChunks(resp.payload)

\* A two-chunk body followed by a trailer section was decoded.
C10_Witness ==
    /\ resp.kind = "chunked"
    /\ Len(resp.payload) = 2
    /\ resp.trailer # <<>>
    /\ ParsedWholeResponse
    /\ outcome = "resolved"

\* The daemon stopped inside the data of a chunk whose size line it had sent,
\* and the client read and parsed all it sent.
ParsedTruncatedResponse == resp.kind = "truncated" /\ ParsedWholeResponse

\* C11 (as the specification states it): when a chunk's declared size does not
\* match the bytes available, parsing fails with an error and no truncated body
\* is returned.
C11_SizeMismatchFails == ParsedTruncatedResponse => outcome = "rejected"

\* C11 (amended): every chunk that is wholly there is consumed with exactly its
\* declared size, and a last chunk that declares more data than the daemon sent
\* raises no error: the one-shot call resolves with the whole chunks followed by
\* the bytes that are there.
C11_TruncatedChunkTolerated ==
    ParsedTruncatedResponse =>
        /\ outcome = "resolved"
        /\ result = combineChunks(Front(resp.payload)) \o SubSeq(Last(resp.payload), 1, resp.avail)

\* A whole chunk and one byte of a longer second chunk were decoded.
C11_Witness ==
    /\ ParsedTruncatedResponse
    /\ Len(resp.payload) = 2
    /\ resp.avail = 1
    /\ Len(Last(resp.payload)) > 1
    /\ outcome = "resolved"

\* The daemon answered with a status line of its own and no chunked encoding,
\* and the client read and parsed the whole answer.
ParsedStatusResponse == resp.kind = "status" /\ ParsedWholeResponse

\* C12: a one-shot call whose response has a parsable status line raises no
\* HTTP error when the code is in 200..299, and otherwise is rejected with an
\* HTTP error that carries the code and the response body as text.
C12_HttpErrorOutside2xx ==
    ParsedStatusResponse =>
        IF resp.code >= 200 /\ resp.code < 300
        THEN outcome = "resolved" /\ lastError = NoError
        ELSE /\ outcome = "rejected"
             /\ lastError.msg = "HTTP error"
             /\ lastError.code = resp.code
             /\ lastError.body = combineChunks(resp.payload)

\* Status 300 with a body was rejected with an HTTP error.
C12_Witness ==
    /\ ParsedStatusResponse
    /\ resp.code = 300
    /\ lastError.msg = "HTTP error"
    /\ Len(lastError.body) > 0

\* A one-shot call read the header block of a 2xx response that is not chunked,
\* and the bytes up to rpos, and parsed them.
ParsedUnchunkedSuccess ==
    /\ \/ resp.kind = "plain"
       \/ resp.kind = "status" /\ resp.code >= 200 /\ resp.code < 300
    /\ pc = "done"
    /\ rpos >= Len(HeaderBlock(resp))
    /\ lastError.msg # "read"

\* C13: for a 2xx response without chunked transfer-encoding the one-shot call
\* resolves with exactly the bytes read after the first CR LF CR LF, also when
\* those bytes hold CR LF CR LF themselves.
C13_UnchunkedBodyUnchanged ==
    ParsedUnchunkedSuccess =>
        /\ outcome = "resolved"
        /\ result = SubSeq(wire, Len(HeaderBlock(resp)) + 1, rpos)

\* A body that holds CR LF CR LF was returned whole.
C13_Witness ==
    /\ ParsedUnchunkedSuccess
    /\ rpos = Len(wire)
    /\ IndexOf(combineChunks(resp.payload), CRLFCRLF) >= 0
    /\ result = combineChunks(resp.payload)

\* A one-shot call read fewer bytes than the header block has, so no
\* CR LF CR LF, then end of file, and parsed them.
ParsedWithoutSeparator ==
    /\ pc = "done"
    /\ rpos < Len(HeaderBlock(resp))
    /\ lastError.msg \notin {"connect", "write", "read"}

\* C14: a one-shot call that read to end of file without meeting CR LF CR LF is
\* rejected with the malformed-response error and returns no body.
C14_NoSeparatorIsFatal ==
    ParsedWithoutSeparator =>
        /\ outcome = "rejected"
        /\ lastError.msg = "Invalid HTTP response: No header separator found"
        /\ result = <<>>

\* The empty response was rejected.
C14_Witness == ParsedWithoutSeparator /\ rpos = 0 /\ outcome = "rejected"

\* What was written: the header block up to the first CR LF CR LF, without
\* the request line, and the bytes after the blank line.
SentHeaders == SubSeq(sent, 1, IndexOf(sent, CRLFCRLF) + 2)
SentBody == SubSeq(sent, IndexOf(sent, CRLFCRLF) + 5, Len(sent))
SentHasHeader(name) == IndexOf(SentHeaders, CRLF \o name) >= 0

\* "Content-Type:" and "Content-Length:"
ContentTypeName == <<67, 111, 110, 116, 101, 110, 116, 45, 84, 121, 112, 101, 58>>
ContentLengthColon == <<67, 111, 110, 116, 101, 110, 116, 45, 76, 101, 110, 103, 116, 104, 58>>

\* C15: a written request with a non-empty body has the header line
\* "Content-Length: n" with n the number of bytes after the blank line, which
\* are the UTF-8 encoding of the body; a written request without a body has
\* neither a Content-Type nor a Content-Length header.
C15_ContentLengthIsByteLength ==
    sent # <<>> =>
        IF req.hasBody /\ req.body # <<>>
        THEN /\ SentBody = Utf8Encode(req.body)
             /\ SentHasHeader(ContentLengthName \o ToDec(Len(SentBody)) \o CRLF)
        ELSE /\ SentBody = <<>>
             /\ ~SentHasHeader(ContentTypeName)
             /\ ~SentHasHeader(ContentLengthColon)

\* A streaming request was written whose body takes more bytes than it has
\* code units.
C15_Witness ==
    /\ req.streams
    /\ req.hasBody
    /\ sent # <<>>
    /\ Len(SentBody) > Len(req.body)

\* The number of bytes of the first n frames of fs on the wire.
RECURSIVE FrameEnd(_, _)
FrameEnd(fs, n) == IF n = 0 THEN 0 ELSE FrameEnd(fs, n - 1) + 8 + Len(fs[n].payload)

\* How many frames of the stream lie wholly within the bytes received.
CompleteFrames ==
    CHOOSE n \in 0..Len(resp.frames) :
        /\ FrameEnd(resp.frames, n) <= rpos
        /\ n < Len(resp.frames) => FrameEnd(resp.frames, n + 1) > rpos

\* The text of each frame's payload, and that text without the white space at
\* its end.
TextOfFrame(f) ==
    CASE f.payload = <<97, 10>> -> <<97, 10>>
      [] f.payload = <<195, 169, 10>> -> <<233, 10>>
      [] f.payload = <<10>> -> <<10>>
      [] OTHER -> <<>>
LineOfFrame(f) ==
    CASE f.payload = <<97, 10>> -> <<97>>
      [] f.payload = <<195, 169, 10>> -> <<233>>
      [] OTHER -> <<>>

\* The onLine calls due for the frames fs: one per frame whose line is not empty.
RECURSIVE CallsOfFrames(_)
CallsOfFrames(fs) ==
    IF fs = <<>> THEN <<>>
    ELSE (IF LineOfFrame(Head(fs)) # <<>>
          THEN <<[line |-> LineOfFrame(Head(fs)),
                  stream |-> IF Head(fs).type = 2 THEN "stderr" ELSE "stdout"]>>
          ELSE <<>>) \o CallsOfFrames(Tail(fs))

RECURSIVE TextOfFrames(_)
TextOfFrames(fs) == IF fs = <<>> THEN <<>> ELSE TextOfFrame(Head(fs)) \o TextOfFrames(Tail(fs))

\* A multiplexed log stream is being followed.
FollowingFrames == resp.kind = "logs" /\ ~resp.tty /\ pc = "reading"

\* The bytes received of the frame that is not whole yet, from its header on.
PartialFrame == SubSeq(wire, FrameEnd(resp.frames, CompleteFrames) + 1, rpos)

\* C16 (as the specification states it): with N whole frames and a part of the
\* next one received, exactly N lines were emitted and the bytes of the
\* partial frame are what remains.
C16_OneLinePerFrame ==
    FollowingFrames => Len(lineCalls) = CompleteFrames /\ lineBuffer = PartialFrame

\* C16 (amended): with N whole frames and a part of the next one received, the
\* lines emitted are those of the N frames, one for each frame whose payload
\* is not empty once the white space at its end is stripped, and the bytes of
\* the partial frame, from its header on, are what remains; so after the
\* missing bytes the last frame's line is out and nothing remains.
C16_NonBlankLinePerFrame ==
    FollowingFrames =>
        /\ lineCalls = CallsOfFrames(SubSeq(resp.frames, 1, CompleteFrames))
        /\ lineBuffer = PartialFrame

\* One frame's line is out and the next frame's header and a part of its
\* payload are kept.
C16_Witness ==
    /\ FollowingFrames
    /\ Len(resp.frames) = 2
    /\ CompleteFrames = 1
    /\ Len(lineCalls) = 1
    /\ Len(lineBuffer) > 8

\* Text that is well-formed UTF-8: decoding it meets nothing to replace.
WellFormed(bytes) == Utf8Encode(Utf8Decode(bytes)) = bytes

\* C17: for a raw-text log stream the lines emitted so far are the lines that
\* one arrival of all the bytes received so far emits.
C17_RawPartitionInvariance ==
    (resp.kind = "logs" /\ resp.tty /\ WellFormed(resp.text) /\ pc = "reading" /\ rpos > 0) =>
        lineCalls = parseStreamingLogFrames(SubSeq(wire, 1, rpos)).lines

\* getContainerLogs returned for a multiplexed body cut after rpos bytes.
DecodedFrames == resp.kind = "logs" /\ ~resp.tty /\ pc = "done"

RECURSIVE LineEnd(_, _)
LineEnd(ls, n) == IF n = 0 THEN 0 ELSE LineEnd(ls, n - 1) + Len(ls[n]) + 1

\* The events due for the lines ls: the object for "{}", the number 1 for "1",
\* none for the others.
RECURSIVE EventsOfLines(_)
EventsOfLines(ls) ==
    IF ls = <<>> THEN <<>>
    ELSE (CASE Head(ls) = <<123, 125>> -> <<[type |-> "object", number |-> 0, text |-> <<>>]>>
            [] Head(ls) = <<49>> -> <<[type |-> "number", number |-> 1, text |-> <<>>]>>
            [] OTHER -> <<>>) \o EventsOfLines(Tail(ls))

\* The lines of the event stream whose LF has been received.
CompleteLines ==
    SubSeq(resp.lines, 1,
           CHOOSE n \in 0..Len(resp.lines) :
               /\ LineEnd(resp.lines, n) <= rpos
               /\ n < Len(resp.lines) => LineEnd(resp.lines, n + 1) > rpos)

\* C19: while an event stream is followed, a complete line that is not JSON
\* brings no onError and does not end the stream, and the events delivered are
\* those of the well-formed complete lines, in order, whichever arrival
\* brought them.
C19_MalformedLineDropped ==
    (resp.kind = "events" /\ pc # "idle") =>
        /\ pc = "reading"
        /\ Count(events, "error") = 0
        /\ lineCalls = EventsOfLines(CompleteLines)

\* A malformed line between two well-formed ones: both events were delivered.
C19_Witness ==
    /\ resp.kind = "events"
    /\ resp.lines = <<<<123, 125>>, <<123>>, <<49>>>>
    /\ rpos = Len(wire)
    /\ Len(lineCalls) = 2

\* A catch block of the client put one of its messages before the error.
HasOperationMessage(e) == \E i \in 1..Len(e.wraps) : e.wraps[i] \in OperationMessages

\* C20: whenever a streaming client operation fails, by a rejected promise or
\* by onError, the error its caller receives carries an operation-specific
\* "Failed to ..." message of the client.
C20_FailuresAreRewrapped ==
    (outcome = "rejected" \/ Count(events, "error") >= 1) =>
        HasOperationMessage(streamCallerError(lastError))

\* What the claims on two streams compare of the second stream: its cancelled
\* flag, its decode buffer, its connection and the callbacks it made.
otherStream ==
    [isCancelled |-> other.isCancelled, cancellable |-> other.cancellable,
     conn |-> other.conn, chunkBuffer |-> other.chunkBuffer, events |-> other.events,
     delivered |-> other.delivered]

\* C21: two streams active at once share no state: a step of one of them (data
\* arriving, an error, the end of the stream, cancel()) leaves the other one's
\* cancelled flag, cancellation token, decode buffer and connection as they
\* were and makes no onData, onError or onClose call on it.
C21_StreamsShareNoState ==
    [][/\ otherStream' # otherStream => firstStream' = firstStream
       /\ firstStream' # firstStream => otherStream' = otherStream]_vars

\* Both streams were active and went different ways: the second one was
\* cancelled after a partial chunk, the first one is open and delivered its data.
C21_Witness ==
    /\ other.isCancelled
    /\ other.conn = "closed"
    /\ other.chunkBuffer # <<>>
    /\ pc = "reading"
    /\ ~isCancelled
    /\ conn = "open"
    /\ delivered = <<<<97>>>>

\* The first call waits on the daemon: for its headers, for the response of a
\* one-shot request, or for more data of its stream.
WaitsOnDaemon == pc \in {"headers", "response"} \/ (pc = "reading" /\ ~cancellable)

\* C22: while the first call waits on a daemon that sends nothing, the second
\* stream can have the data that arrived for it delivered and its cancel()
\* executed.
C22_HangBlocksOnlyItsOwnCall ==
    (WaitsOnDaemon /\ other.pc = "reading") =>
        /\ (~other.cancellable /\ other.rpos < Len(OtherWire)) => ENABLED otherData
        /\ other.cancelCalls < MaxCancels => ENABLED otherCancel

\* C23: isCancelled() on the handle is false until the first cancel() call and
\* true ever after: in every state the flag is set exactly when cancel() has
\* been called, whatever data, read errors or end of stream came before or
\* after the call.
C23_IsCancelledFollowsCancel ==
    /\ isCancelled <=> cancelCalls >= 1
    /\ outcome = "handle" => (isCancelled <=> Count(events, "cancel") >= 1)

\* cancel() was called twice and the pending read then ended: the flag is set.
C23_Witness ==
    /\ outcome = "handle"
    /\ cancelCalls = 2
    /\ loopEnd = "aborted"
    /\ isCancelled

\* The positions of a character in the repo-tag string.
Positions(ch) == {i \in 1..Len(repoTag) : repoTag[i] = ch}
LastPosition(ch) == CHOOSE i \in Positions(ch) : \A j \in Positions(ch) : j <= i

\* The string has no tag: it has no ":", or its last ":" comes before its
\* last "/".
HasNoTag ==
    \/ Positions(Colon) = {}
    \/ Positions(Slash) # {} /\ LastPosition(Colon) <= LastPosition(Slash)

\* C24: a repo-tag string other than "<none>:<none>" whose last ":" is not
\* after its last "/" (or that has no ":") gives (the string, "latest"); any
\* other gives (the text before the last ":", the text after it);
\* "<none>:<none>" gives ("<none>", "<none>").
C24_RepoTagSplitting ==
    pc = "done" =>
        nameTag = IF repoTag = NoneNone THEN <<NoneText, NoneText>>
                  ELSE IF HasNoTag THEN <<repoTag, Latest>>
                  ELSE <<SubSeq(repoTag, 1, LastPosition(Colon) - 1),
                         SubSeq(repoTag, LastPosition(Colon) + 1, Len(repoTag))>>

\* "a:/a" was split: the colon belongs to the registry, the tag is "latest".
C24_Witness ==
    /\ pc = "done"
    /\ repoTag = <<97, Colon, Slash, 97>>
    /\ nameTag = <<repoTag, Latest>>

\* The container-number the record carries is the integer read from the
\* label: its value when the label is all digits, not a number when the label
\* has no digit.
NumberParsed ==
    LET n == container.composeInfo.containerNumber
        text == labels.containerNumber.value
    IN  /\ n.defined
        /\ (\A i \in 1..Len(text) : IsDigit(text[i])) => ~n.nan /\ ToDec(n.val) = text
        /\ (\A i \in 1..Len(text) : ~IsDigit(text[i])) => n.nan

\* C25 as stated: a compose record exactly when both the project and the
\* service label are present, and in it a container-number exactly when that
\* label is present.
C25_ComposeIffBothLabelsPresent ==
    pc = "done" =>
        /\ container.isCompose <=> (labels.project.defined /\ labels.service.defined)
        /\ container.isCompose =>
              (container.composeInfo.containerNumber.defined <=> labels.containerNumber.defined)

\* C25: a container gets a compose record exactly when both the project and
\* the service label are present and not empty; with one of them missing or
\* empty isCompose is false and there is no record; the record carries the
\* container-number, read as a decimal integer, exactly when that label is
\* present and not empty.
C25_ComposeIffBothLabelsNonEmpty ==
    pc = "done" =>
        /\ container.isCompose <=> (IsTruthy(labels.project) /\ IsTruthy(labels.service))
        /\ container.hasComposeInfo <=> container.isCompose
        /\ container.isCompose =>
              /\ container.composeInfo.project = labels.project
              /\ container.composeInfo.service = labels.service
              /\ container.composeInfo.workingDir = labels.workingDir
              /\ container.composeInfo.configFiles = labels.configFiles
              /\ container.composeInfo.containerNumber.defined
                    <=> IsTruthy(labels.containerNumber)
              /\ IsTruthy(labels.containerNumber) => NumberParsed

\* Both labels and the container-number "12": a record with the number 12.
C25_Witness ==
    /\ pc = "done"
    /\ labels.project = Defined(<<112>>)
    /\ labels.service = Defined(<<115>>)
    /\ labels.containerNumber = Defined(<<49, 50>>)
    /\ container.isCompose
    /\ container.composeInfo.containerNumber.val = 12

\* The bytes of the response after its first CR LF CR LF that were read so far.
BodyRead == SubSeq(wire, findHeaderEnd(wire) + 5, rpos)

\* C26: on a stream whose response is not chunked, the onData arguments put
\* together are the bytes read after the first CR LF CR LF, in order, wherever
\* the reads ended (inside the terminator, in the body): at every moment a
\* prefix of the body, at the end of the stream all of what arrived, and no
\* onData call is made without bytes.
C26_PlainStreamPassesBytesThrough ==
    (resp.kind = "plain" /\ outcome = "handle") =>
        /\ ~isChunked
        /\ combineChunks(delivered) = BodyRead
        /\ IsPrefix(combineChunks(delivered), SubSeq(wire, Len(HeaderPlain) + 1, Len(wire)))
        /\ \A i \in 1..Len(delivered) : delivered[i] # <<>>
        /\ (loopEnd = "eof" /\ rpos = Len(wire)) =>
              combineChunks(delivered) = combineChunks(resp.payload)

\* The body "a" CR LF CR LF "b" came in two parts, the first in the read that
\* ended the headers, the second in the read loop, and the stream ended.
C26_Witness ==
    /\ resp.kind = "plain"
    /\ delivered = <<<<97, 13>>, <<10, 13, 10, 98>>>>
    /\ loopEnd = "eof"

\* How many bytes of the chunked body were read, and how many of them the
\* first n chunks take (size line, CRLF, data, CRLF each).
ChunkedBodyRead == rpos - Len(HeaderChunked)
EncodedLen(n) == Len(EncodeChunks(SubSeq(resp.payload, 1, n)))

\* The number of chunks that were read whole, trailing CRLF included.
WholeChunks ==
    LET whole == {n \in 0..Len(resp.payload) : EncodedLen(n) <= ChunkedBodyRead}
    IN  CHOOSE n \in whole : \A m \in whole : m <= n

\* C27: on a chunked stream onData was called for exactly the chunks whose size
\* line, data and trailing CRLF were all read, never for a part of a chunk; and
\* while a chunk is incomplete the decoder's buffer is exactly the bytes read
\* from that chunk's size line on.
C27_NoPartialChunk ==
    (resp.kind = "chunked" /\ outcome = "handle") =>
        /\ delivered = SubSeq(resp.payload, 1, WholeChunks)
        /\ WholeChunks < Len(resp.payload) =>
              chunkBuffer = SubSeq(wire, Len(HeaderChunked) + EncodedLen(WholeChunks) + 1, rpos)

\* The first chunk was delivered; of the second, a ten-byte chunk, the size
\* line and a part of the data are in the buffer.
C27_Witness ==
    /\ resp.kind = "chunked"
    /\ outcome = "handle"
    /\ Len(resp.payload) = 2
    /\ Len(resp.payload[2]) = 10
    /\ Len(delivered) = 1
    /\ Len(chunkBuffer) > 3

\* The bytes the first n items of the body take, and the number of items that
\* were read whole.
ItemsLen(n) == Len(EncodeItems(SubSeq(resp.payload, 1, n)))
WholeItems ==
    LET whole == {n \in 0..Len(resp.payload) : ItemsLen(n) <= rpos - Len(HeaderChunked)}
    IN  CHOOSE n \in whole : \A m \in whole : m <= n

\* The data of the chunks among the first n items, in order.
RECURSIVE ChunksAmong(_)
ChunksAmong(items) ==
    IF items = <<>> THEN <<>>
    ELSE IF Head(items).bad THEN ChunksAmong(Tail(items))
    ELSE <<Head(items).bytes>> \o ChunksAmong(Tail(items))

\* C28: on a chunked stream a chunk-size line that cannot be parsed brings no
\* onError and does not end the stream: the decoder drops that line and its
\* CRLF, no more and no less, and every chunk read whole, before or after such
\* a line, is delivered.
C28_BadSizeLineSkipped ==
    (resp.kind = "garbled" /\ outcome = "handle") =>
        /\ loopEnd # "error" => Count(events, "error") = 0
        /\ pc = "reading" \/ loopEnd # "none"
        /\ delivered = ChunksAmong(SubSeq(resp.payload, 1, WholeItems))
        /\ WholeItems < Len(resp.payload) =>
              chunkBuffer = SubSeq(wire, Len(HeaderChunked) + ItemsLen(WholeItems) + 1, rpos)

\* The lines "g1" and "zz" were skipped and the chunk after them delivered.
C28_Witness ==
    /\ resp.kind = "garbled"
    /\ Len(resp.payload) = 3
    /\ resp.payload[1].bad /\ resp.payload[2].bad
    /\ delivered = <<<<97>>>>
    /\ Count(events, "error") = 0

\* A hexadecimal digit, and a line that is a hexadecimal number: one digit or
\* more and nothing else.
IsHexDigit(c) == (c >= 48 /\ c <= 57) \/ (c >= 97 /\ c <= 102) \/ (c >= 65 /\ c <= 70)
IsHexNumber(line) == Len(line) >= 1 /\ \A i \in 1..Len(line) : IsHexDigit(line[i])

\* A line at whose start there is no number to read: after white space, a sign
\* and a 0x prefix no hexadecimal digit follows.
HasNoLeadingNumber(line) ==
    LET t == TrimStart(line)
        u == IF t # <<>> /\ t[1] \in {43, 45} THEN Tail(t) ELSE t
        v == IF Len(u) >= 2 /\ u[1] = 48 /\ u[2] \in {120, 88} THEN SubSeq(u, 3, Len(u)) ELSE u
    IN  v = <<>> \/ ~IsHexDigit(v[1])

\* The size lines of the body's items.
SizeLines == {resp.payload[i].line : i \in 1..Len(resp.payload)}

\* C29 as stated: a one-shot response one of whose chunk-size lines is not a
\* hexadecimal number fails, and no body bytes are returned.
C29_NonHexSizeLineIsFatal ==
    (resp.kind = "garbled" /\ ParsedWholeResponse /\ \E l \in SizeLines : ~IsHexNumber(l)) =>
        /\ outcome = "rejected"
        /\ result = <<>>

\* C29: a one-shot response one of whose chunk-size lines has no hexadecimal
\* digit at its start (after white space, a sign and a 0x prefix) fails, and no
\* body bytes are returned, not even those of the chunks before that line; a
\* size line whose leading digits are followed by other characters is read as
\* the number those digits give, and the response decodes.
C29_UnreadableSizeLineIsFatal ==
    (resp.kind = "garbled" /\ ParsedWholeResponse) =>
        IF \E l \in SizeLines : HasNoLeadingNumber(l)
        THEN /\ outcome = "rejected"
             /\ result = <<>>
             /\ lastError.msg = "Invalid chunk size"
        ELSE /\ outcome = "resolved"
             /\ result = combineChunks(ChunksAmong(resp.payload))

\* The chunk "a", the line "zz" and the chunk "b" were read: the call failed.
C29_Witness ==
    /\ resp.kind = "garbled"
    /\ ParsedWholeResponse
    /\ Len(resp.payload) = 3
    /\ resp.payload[2].bad
    /\ outcome = "rejected"

\* The one-shot call read the daemon's truncated response at least to the end
\* of the last chunk's size line, then the connection ended, and it parsed
\* what it had read.
ParsedCutChunk ==
    /\ resp.kind = "truncated"
    /\ pc = "done"
    /\ lastError.msg # "read"
    /\ rpos >= Len(wire) - resp.avail

\* C30: when the last chunk of a one-shot response declares more data bytes
\* than were read after its size line, the decoder raises no error: the call
\* resolves with the chunks before it followed by the bytes that were read of
\* it, none when there are none.
C30_IncompleteFinalChunkTaken ==
    ParsedCutChunk =>
        /\ lastError = NoError
        /\ outcome = "resolved"
        /\ result = combineChunks(Front(resp.payload))
                        \o SubSeq(wire, Len(wire) - resp.avail + 1, rpos)

\* Nine of the ten bytes of a second chunk were there: the call resolved with
\* the first chunk and those nine bytes.
C30_Witness ==
    /\ ParsedCutChunk
    /\ Len(resp.payload) = 2
    /\ Len(Last(resp.payload)) = 10
    /\ resp.avail = 9
    /\ rpos = Len(wire)
    /\ Len(result) = Len(resp.payload[1]) + 9

\* What the one-shot parser makes of the daemon's whole response.
OneShotParse == parseHttpResponseBytes(wire)

\* requestStream got as far as the status check of the header block.
StatusChecked ==
    \/ outcome = "handle"
    \/ pc = "failed" /\ lastError.msg \in {"Invalid HTTP status line", "HTTP error"}

\* C31: requestStream and the one-shot parser give the same outcome for the
\* same response: both accept its status, or both fail with the same error
\* (invalid status line, or HTTP error with the same code and content), and a
\* rejected status delivers no onData.
C31_StreamValidatesAsOneShot ==
    StatusChecked =>
        IF outcome = "handle"
        THEN OneShotParse.ok \/ OneShotParse.error.msg = "Invalid chunk size"
        ELSE /\ ~OneShotParse.ok
             /\ lastError = OneShotParse.error
             /\ delivered = <<>>

\* The decode calls of the log stream so far took the raw-text fallback in
\* none of them.
NoFallbackIn(ms) == \A i \in 1..Len(ms) : ms[i].fallback = -1

\* C32: the framing mode of a log stream is decided once: every decode call of
\* the stream, as long as none took the oversized-length fallback, has the
\* isMultiplexed of the first call, whatever the first byte of its buffer.
C32_ModeDecidedOnce ==
    (resp.kind = "logs" /\ pc = "reading") =>
        \A i \in 1..Len(modes) :
            NoFallbackIn(SubSeq(modes, 1, i)) => modes[i].multiplexed = modes[1].multiplexed

\* A decode call of the log stream has taken the oversized-length fallback.
FallbackTaken == \E i \in 1..Len(modes) : modes[i].fallback >= 0

\* C34: once a decode call of a log stream has taken the oversized-length
\* fallback, every later arrival is decoded as raw text: the call emits the
\* lines of the raw-text branch on the buffer (remainder plus new chunk) and
\* keeps its last fragment.
C34_FallbackIsPermanent ==
    [][(resp.kind = "logs" /\ pc = "reading" /\ rpos' > rpos /\ FallbackTaken) =>
           /\ lineCalls' = lineCalls
                   \o rawTextLines(lineBuffer \o SubSeq(wire, rpos + 1, rpos')).lines
           /\ lineBuffer' = rawTextLines(lineBuffer \o SubSeq(wire, rpos + 1, rpos')).remaining]_vars

\* The frame decoder is at the top of its while loop, with a pass to make.
AtFrameLoop == resp.kind = "frames" /\ pc = "loop" /\ rpos < Len(wire)

\* The header at offset rpos is whole, and its length field read as an unsigned
\* big-endian number is above 1,000,000.
DeclaresOverLimit ==
    /\ rpos >= 0
    /\ rpos + 8 <= Len(wire)
    /\ \/ At(wire, rpos + 4) > 0
       \/ At(wire, rpos + 5) * 65536 + At(wire, rpos + 6) * 256 + At(wire, rpos + 7) > 1000000

\* C33: in multiplexed mode a header whose length field declares more than
\* 1,000,000 bytes, up to 2^32 - 1, makes the streaming decoder take the
\* raw-text fallback from the current offset.
C33_OversizedLengthFallsBack ==
    (AtFrameLoop /\ resp.streaming /\ DeclaresOverLimit) =>
        streamingFrameStep(wire, rpos).kind = "return"

\* C38: each pass of the while loop of either log frame decoder leaves the
\* loop or goes on at a strictly greater offset, whatever the length field.
C38_FramePassAdvances ==
    AtFrameLoop =>
        IF resp.streaming
        THEN streamingFrameStep(wire, rpos).kind = "next" =>
                 streamingFrameStep(wire, rpos).offset > rpos
        ELSE logFrameStep(wire, rpos).kind = "next" => logFrameStep(wire, rpos).offset > rpos

\* The fragments of `frags` but the last, each as an onLine call tagged stdout.
AllButLast(frags) ==
    [i \in 1..(Len(frags) - 1) |-> [line |-> frags[i], stream |-> "stdout"]]

\* The bytes of `bytes` after its last newline, all of them when it has none.
LastFragment(bytes) == SubArrayFrom(bytes, LastIndexOf(bytes, <<10>>) + 1)

\* C35: a raw-mode decode call emits every newline-separated fragment of its
\* buffer but the last, in order, tagged stdout and whole, one call for each
\* newline, and keeps exactly the last fragment as the new remainder.
C35_RawEmitsEveryCompleteLine ==
    [][(resp.kind = "logs" /\ pc = "reading" /\ rpos' > rpos
            /\ ~isMultiplexed(lineBuffer \o SubSeq(wire, rpos + 1, rpos'))) =>
           /\ lineCalls' = lineCalls
                   \o AllButLast(Split(Utf8Decode(lineBuffer \o SubSeq(wire, rpos + 1, rpos')), 10))
           /\ Len(lineCalls') - Len(lineCalls)
                   = Count(lineBuffer \o SubSeq(wire, rpos + 1, rpos'), 10)
           /\ lineBuffer' = LastFragment(lineBuffer \o SubSeq(wire, rpos + 1, rpos'))]_vars

\* C36: for every partition of an event stream into arrivals, the onEvent calls
\* made once rpos bytes have arrived are those of one arrival of the same
\* bytes, and the text kept is the fragment after their last newline.
C36_EventPartitionInvariance ==
    (resp.kind = "events" /\ pc = "reading" /\ rpos > 0) =>
        /\ lineCalls = eventsOnData(<<>>, SubSeq(wire, 1, rpos)).calls
        /\ lineBuffer = eventsOnData(<<>>, SubSeq(wire, 1, rpos)).buffer

\* C37: over the whole life of a stream of requestStream, whatever the order of
\* end of stream, read error and cancel() calls, onClose is called at most once.
C37_OnCloseAtMostOnce == Count(events, "close") <= 1

\* The chunked decoder is at the top of its while loop, with a pass to make.
AtChunkLoop == resp.kind = "body" /\ pc = "loop" /\ rpos < Len(wire)

\* C39: each pass of the while loop of either chunked decoder leaves the loop
\* or goes on at a strictly greater position, whatever chunk size the size line
\* parses to, and the incremental decoder has made no more onData calls than
\* the position it has reached.
C39_ChunkPassAdvances ==
    /\ AtChunkLoop =>
           IF resp.streaming
           THEN processChunkedStep(wire, rpos).kind = "next" =>
                    processChunkedStep(wire, rpos).offset > rpos
           ELSE decodeChunkedStep(wire, rpos).kind = "next" =>
                    decodeChunkedStep(wire, rpos).index > rpos
    /\ (resp.kind = "body" /\ resp.streaming) => Len(delivered) <= rpos

\* The promise of monitorUntilStartedOrExited is resolved or rejected.
Settled == monitor.promise \in {"resolved", "rejected"}

\* C40: the promise of monitorUntilStartedOrExited settles at most once, and
\* resolves only with running, exited, stopped, dead or paused; once it has
\* settled the timer has been removed exactly once and onStatusChange is not
\* called again, whatever inspect calls were still in flight.
C40_MonitorSettlesOnce ==
    /\ [](monitor.promise = "resolved" =>
              monitor.value \in {"running", "exited", "stopped", "dead", "paused"})
    /\ [](Settled => monitor.removes = 1)
    /\ [][Settled => /\ monitor'.promise = monitor.promise
                     /\ monitor'.value = monitor.value
                     /\ monitor'.statusCalls = monitor.statusCalls]_vars

====
